---------------------------- MODULE Spec2Model ----------------------------
(***************************************************************************)
(* Model of the duplicate-entity resolver and its similarity primitives    *)
(* (sl-api-vis.py, y-api.py, sl-api.py).                                    *)
(*                                                                         *)
(* Python strings are TLA+ strings; a character is a string of length 1.   *)
(***************************************************************************)
EXTENDS Integers, Sequences, FiniteSets, TLC

VARIABLES
    \* --- find_duplicate_components ---
    variant,    \* "vis": sl-api-vis.py (edge-tagging); "grp": y-api.py, sl-api.py
    awards,     \* the record list; index k here is index k-1 of the Python list
    graph,      \* graph[i]: the set of neighbours of record i
    edge_reasons,   \* edge_reasons[<<i, j>>], i < j: the reason tags of the pair;
                    \* {} stands for a key the defaultdict does not hold
    seen,       \* the set seen
    stack,      \* the list stack
    comp,       \* comp_indices (vis) / comp (grp): the component being collected
    comp_reasons_for_graph, \* the reasons collected for the current component
    outer_i,    \* the i of the loop "for i in range(n)" over the components
    components, \* grp: the list components, before the filter
    returned,   \* the list the function returns: components_with_reasons
                \* (vis, each entry with its reasons) or final_components (grp);
                \* red_flag_attribute_strings, the third part of a vis entry, is
                \* the values named by the entry's reasons and is not kept
    rpc,        \* position in the function
    run,        \* 1 for the first call, 2 for the second call on the same list
    first_run,  \* what the first call built and returned, kept by the caller
    \* --- normalize_firm_name driver ---
    name,       \* the firm name handed to normalize_firm_name
    norm1,      \* normalize_firm_name(name)
    norm2,      \* normalize_firm_name(norm1)
    npc,        \* position of the driver: "in" -> "once" -> "twice"
    \* --- similar_address driver ---
    addr1,      \* first address handed to similar_address
    addr2,      \* second address
    sim_vis,    \* result of similar_address of sl-api-vis.py
    sim_plain,  \* result of similar_address of y-api.py / sl-api.py
    apc,        \* position of the driver: "in" -> "vis" -> "plain"
    \* --- 0A-template.py, and 0B-process.py reading its file ---
    listing,    \* os.listdir(PDF_DIRECTORY): the entries, each a file name with
                \* the raw text of its pages
    pdf_files,  \* main: the entries whose name ends with ".pdf"
    text_by_pdf,    \* find_common_text: text_by_pdf, in insertion order
    phrase_count,   \* the defaultdict phrase_count: a function on the keys it holds
    header_footer_count,    \* the defaultdict header_footer_count
    detected_headers_footers,
    detected_template_phrases,
    filtered_text,  \* the list find_common_text returns
    template_file,  \* processed_data/template_text.json: NoFile, or the list
                    \* under its key template_text
    file_writes,    \* how many times the template file was opened for writing
    printed,    \* the diagnostics printed so far
    pdf_index,  \* the loop "for pdf_index, pdf_file in enumerate(pdf_files)",
                \* and then the loop of main of 0B-process.py
    processed_data, \* 0B-process.py: text_by_page of every processed file
    tpc,        \* position: "main" -> "count" -> "filter" -> "save" -> "saved"
                \* -> "process" -> "done"; "main" -> "refused" -> "process"
    \* --- compute_image_similarity driver (0B-1-match.py, 0B-z-match.py) ---
    images1,    \* the image list of the first document
    images2,    \* the image list of the second document
    sim12,      \* compute_image_similarity(images1, images2)
    sim21,      \* compute_image_similarity(images2, images1)
    sim_distinct,   \* the same on the lists with one image kept per hash
    ipc,        \* position of the driver: "in" -> "one" -> "two" -> "three"
    \* --- 1A-report.py ---
    data,       \* load_processed_files: the documents, in the order of the dict
    matches,    \* the list matches
    summary_data,   \* the defaultdict summary_data, in insertion order
    processed_pairs,    \* the set processed_pairs
    processed_rows, \* get_processed_rows_count() at the start of the run
    batch_i,    \* the i of "for i in range(batch_start, len(files), BATCH_SIZE)"
    current_batch,
    batch_files,    \* files[i:i+BATCH_SIZE]
    file1_k,    \* position of "for file1 in batch_files"
    image_comparison_tasks, \* the tasks of the batch, in submission order
    results,    \* the pool: results[t] is the result task t returned, or NotDone
    running,    \* the pool: running[w] is the task worker w holds (its own copy
                \* of the arguments), or Idle
    next_task,  \* the pool: the next task of the call queue
    finished,   \* the pool: the tasks in the order they completed
    num_cpus,   \* max(1, os.cpu_count() - 1)
    matches_file,   \* matches_report.csv: NoCsv, or its rows after the header
    summary_file,   \* summary_report.csv: NoCsv, or its rows after the header
    compared,   \* the calls of extract_matching_sentences so far, over all
                \* runs: the pairs (file1, file2)
    reported,   \* the files reported as "Missing 'text_by_page'"
    restarts,   \* how many times the program was interrupted and started again
    cpc,        \* position: "start" -> "batch" -> "files" -> ("pool") -> "save"
                \* -> "batch" ... -> "done"; "aborted" after an exception
    \* --- display_results (sl-api-vis.py, y-api.py) ---
    caller_awards,  \* the list display_results is called with: records with
                    \* their award_amount, and None entries
    comp_k,     \* the loop over the returned components
    comp_rows,  \* comp_rows of every component summed so far
    group_totals,   \* group_total of every component summed so far
    total_duplicates_amount,
    raised,     \* the exception that ended display_results, "" for none
    dpc,        \* position: "resolve" -> "sum" -> "shown"; "resolve" ->
                \* "nothing"; "sum" -> "raised"
    \* --- find_latest_pdf_comparison / find_latest_file ---
    dir_listing,    \* os.listdir(CSV_DIRECTORY)
    file_prefix,    \* the prefix asked for
    latest_file,    \* the file name found
    lpc,        \* position: "in" -> "found"; "in" -> "raised" (FileNotFoundError)
    \* --- extract_images_from_pdf over one run (0-process.py, 0B-process.py) ---
    image_counts,   \* the module-level defaultdict image_counts: a function on
                    \* the keys it holds
    image_data, \* the list image_data of the PDF being read
    outputs,    \* image_data of every JSON document written so far
    img_index,  \* how many images of the PDF were read
    pdf_count,  \* how many PDFs the directory lists
    epc,        \* position: "main" -> "images" -> "main" ... -> "done"
    \* --- main of sl-api-vis.py under Streamlit ---
    run_analysis,   \* st.session_state.run_analysis
    filter_year,    \* st.session_state.filter_year
    filter_agency,
    filter_branch,
    input_year,     \* the widget state under the key input_year
    input_agency,
    input_branch,
    callback,   \* the year, agency and branch the registered callback
                \* set_run_analysis_true closes over
    page_shown, \* what the last script run showed: "info", "results",
                \* "fetch_warning", "branch_warning"; "none" before the first run
    last_click, \* history: the values stored by the last Run Analysis click,
                \* NoClick before the first
    edited_since_click  \* history: a filter was edited after the last click

resVars == <<variant, awards, graph, edge_reasons, seen, stack, comp,
             comp_reasons_for_graph, outer_i, components, returned, rpc, run,
             first_run>>
normVars == <<name, norm1, norm2, npc>>
addrVars == <<addr1, addr2, sim_vis, sim_plain, apc>>
tplVars == <<listing, pdf_files, text_by_pdf, phrase_count, header_footer_count,
             detected_headers_footers, detected_template_phrases, filtered_text,
             template_file, file_writes, printed, pdf_index, processed_data, tpc>>
\* the state of the document pipeline (everything but the resolver and its
\* primitives)
imgVars == <<images1, images2, sim12, sim21, sim_distinct, ipc>>
poolVars == <<results, running, next_task, finished>>
reportVars == <<data, matches, summary_data, processed_pairs, processed_rows,
                batch_i, current_batch, batch_files, file1_k,
                image_comparison_tasks, poolVars, num_cpus, matches_file,
                summary_file, compared, reported, restarts, cpc>>
dispVars == <<caller_awards, comp_k, comp_rows, group_totals,
              total_duplicates_amount, raised, dpc>>
\* the later sub-models
latestVars == <<dir_listing, file_prefix, latest_file, lpc>>
extractVars == <<image_counts, image_data, outputs, img_index, pdf_count, epc>>
appVars == <<run_analysis, filter_year, filter_agency, filter_branch, input_year,
             input_agency, input_branch, callback, page_shown, last_click,
             edited_since_click>>
moreVars == <<dispVars, latestVars, extractVars, appVars>>
docVars == <<tplVars, imgVars, reportVars, moreVars>>
\* everything but the template pipeline
notTplVars == <<variant, awards, graph, edge_reasons, seen, stack, comp,
                comp_reasons_for_graph, outer_i, components, returned, rpc, run,
                first_run, name, norm1, norm2, npc, addr1, addr2, sim_vis,
                sim_plain, apc, imgVars, reportVars, moreVars>>

vars == <<variant, awards, graph, edge_reasons, seen, stack, comp,
          comp_reasons_for_graph, outer_i, components, returned, rpc, run,
          first_run, name, norm1, norm2, npc, addr1, addr2, sim_vis, sim_plain,
          apc, docVars>>

-----------------------------------------------------------------------------
(* Bounds *)

\* number of records handed to find_duplicate_components
MaxRecords == 3

\* number of tokens a generated firm name is concatenated from
MaxNameTokens == 3

\* number of tokens a generated address is concatenated from
MaxAddrTokens == 2

-----------------------------------------------------------------------------
(* Characters and the str / re primitives the code uses *)

\* str.lower() on the letters; every other character is its own lower case
LOWER_OF ==
    [A |-> "a", B |-> "b", C |-> "c", D |-> "d", E |-> "e", F |-> "f", G |-> "g",
     H |-> "h", I |-> "i", J |-> "j", K |-> "k", L |-> "l", M |-> "m", N |-> "n",
     O |-> "o", P |-> "p", Q |-> "q", R |-> "r", S |-> "s", T |-> "t", U |-> "u",
     V |-> "v", W |-> "w", X |-> "x", Y |-> "y", Z |-> "z"]

Char(s, i) == SubSeq(s, i, i)

\* \s of re, and the characters str.strip() removes
IsSpace(c) == c \in {" ", "\t", "\n", "\r", "\f"}

\* \d of re
IsDigit(c) == c \in {"0", "1", "2", "3", "4", "5", "6", "7", "8", "9"}

\* str.lower() on one character
LowerChar(c) == IF c \in DOMAIN LOWER_OF THEN LOWER_OF[c] ELSE c

RECURSIVE lower(_)
\* str.lower()
lower(s) == IF s = "" THEN "" ELSE LowerChar(Head(s)) \o lower(Tail(s))

RECURSIVE lstrip(_)
lstrip(s) == IF s # "" /\ IsSpace(Head(s)) THEN lstrip(Tail(s)) ELSE s

RECURSIVE rstrip(_)
rstrip(s) ==
    IF s # "" /\ IsSpace(Char(s, Len(s)))
    THEN rstrip(SubSeq(s, 1, Len(s) - 1))
    ELSE s

\* str.strip()
strip(s) == rstrip(lstrip(s))

RECURSIVE collapse_ws(_)
\* re.sub(r'\s+', ' ', s): every maximal run of whitespace becomes one space
collapse_ws(s) ==
    IF s = "" THEN ""
    ELSE IF IsSpace(Head(s))
         THEN " " \o collapse_ws(lstrip(s))
         ELSE Head(s) \o collapse_ws(Tail(s))

RECURSIVE remove_char(_, _)
\* s.replace(c, "") for a one-character c
remove_char(s, c) ==
    IF s = "" THEN ""
    ELSE IF Head(s) = c THEN remove_char(Tail(s), c)
         ELSE Head(s) \o remove_char(Tail(s), c)

\* str.endswith
endswith(s, suffix) ==
    /\ Len(s) >= Len(suffix)
    /\ SubSeq(s, Len(s) - Len(suffix) + 1, Len(s)) = suffix

-----------------------------------------------------------------------------
(* normalize_firm_name *)

SUFFIXES == <<" inc", " llc", " corporation", " corp", " co">>

RECURSIVE strip_suffixes(_, _)
\* the for loop over the suffix list, from suffix number k on: one pass
strip_suffixes(n, k) ==
    IF k > Len(SUFFIXES) THEN n
    ELSE IF endswith(n, SUFFIXES[k])
         THEN strip_suffixes(strip(SubSeq(n, 1, Len(n) - Len(SUFFIXES[k]))), k + 1)
         ELSE strip_suffixes(n, k + 1)

normalize_firm_name(nm) ==
    LET n1 == strip(collapse_ws(nm))
        n2 == remove_char(remove_char(lower(n1), "."), ",")
    IN  strip_suffixes(n2, 1)

-----------------------------------------------------------------------------
(* similar_address *)

\* threshold=0.8, in tenths
THRESHOLD_TENTHS == 8

QUALIFIERS == <<"apt", "suite", "unit">>

RECURSIVE span(_, _)
\* length of the longest prefix of s made of characters of class "space" or "digit"
span(s, class) ==
    IF s # "" /\ (IF class = "space" THEN IsSpace(Head(s)) ELSE IsDigit(Head(s)))
    THEN 1 + span(Tail(s), class)
    ELSE 0

drop(s, k) == SubSeq(s, k + 1, Len(s))

\* length of the match of (apt|suite|unit)\s*\.?\s*\d+ (IGNORECASE) at the start
\* of s, 0 when there is none (a match is never empty)
qualifier_match(s) ==
    LET kws == {k \in 1..Len(QUALIFIERS) :
                   /\ Len(s) >= Len(QUALIFIERS[k])
                   /\ lower(SubSeq(s, 1, Len(QUALIFIERS[k]))) = QUALIFIERS[k]}
    IN  IF kws = {} THEN 0
        ELSE LET kw == Len(QUALIFIERS[CHOOSE k \in kws : TRUE])
                 r1 == drop(s, kw)
                 w1 == span(r1, "space")
                 r2 == drop(r1, w1)
                 dot == IF r2 # "" /\ Head(r2) = "." THEN 1 ELSE 0
                 r3 == drop(r2, dot)
                 w2 == span(r3, "space")
                 r4 == drop(r3, w2)
                 d == span(r4, "digit")
             IN  IF d = 0 THEN 0 ELSE kw + w1 + dot + w2 + d

RECURSIVE strip_qualifiers(_)
\* re.sub(r'(apt|suite|unit)\s*\.?\s*\d+', '', s, flags=re.IGNORECASE)
strip_qualifiers(s) ==
    IF s = "" THEN ""
    ELSE LET m == qualifier_match(s)
         IN  IF m > 0 THEN strip_qualifiers(drop(s, m))
             ELSE Head(s) \o strip_qualifiers(Tail(s))

RECURSIVE first_digit_run(_)
\* re.search(r'\d+', s): the matched text, "" standing for None (no match)
first_digit_run(s) ==
    IF s = "" THEN ""
    ELSE IF IsDigit(Head(s)) THEN SubSeq(s, 1, span(s, "digit"))
         ELSE first_digit_run(Tail(s))

Max(S) == CHOOSE x \in S : \A y \in S : y <= x
Min(S) == CHOOSE x \in S : \A y \in S : x <= y

RECURSIVE common_prefix(_, _)
\* length of the longest common prefix of a and b
common_prefix(a, b) ==
    IF a # "" /\ b # "" /\ Head(a) = Head(b)
    THEN 1 + common_prefix(Tail(a), Tail(b))
    ELSE 0

\* SequenceMatcher.find_longest_match over the whole of a and b, no junk:
\* <<i, j, k>> with a[i..i+k-1] = b[j..j+k-1], k largest, then i least, then
\* j least (1-based); k = 0 when nothing matches
find_longest_match(a, b) ==
    LET L == {<<p[1], p[2], common_prefix(drop(a, p[1] - 1), drop(b, p[2] - 1))>> :
                 p \in (1..Len(a)) \X (1..Len(b))}
        best == Max({t[3] : t \in L} \cup {0})
        cands == {t \in L : t[3] = best}
        i == Min({t[1] : t \in cands})
        j == Min({t[2] : t \in {c \in cands : c[1] = i}})
    IN  IF best = 0 THEN <<1, 1, 0>> ELSE <<i, j, best>>

RECURSIVE matching_size(_, _)
\* sum of the sizes of SequenceMatcher.get_matching_blocks(): the longest
\* match, then the same to its left and to its right
matching_size(a, b) ==
    IF a = "" \/ b = "" THEN 0
    ELSE LET m == find_longest_match(a, b)
         IN  IF m[3] = 0 THEN 0
             ELSE m[3]
                  + matching_size(SubSeq(a, 1, m[1] - 1), SubSeq(b, 1, m[2] - 1))
                  + matching_size(drop(a, m[1] + m[3] - 1), drop(b, m[2] + m[3] - 1))

\* SequenceMatcher(None, a, b).ratio() > threshold, with
\* ratio = 2.0 * matches / (len(a) + len(b)), and 1.0 when both are empty
ratio_above_threshold(a, b) ==
    IF Len(a) + Len(b) = 0 THEN 10 > THRESHOLD_TENTHS
    ELSE 10 * 2 * matching_size(a, b) > THRESHOLD_TENTHS * (Len(a) + Len(b))

\* a slip in the veto: equal house numbers veto, different ones do not
digit_veto_inverted(s1, s2) ==
    LET num1 == first_digit_run(s1)
        num2 == first_digit_run(s2)
    IN  num1 # "" /\ num2 # "" /\ num1 = num2

\* the numeric veto: both strings hold a digit run and the first runs differ
digit_veto(s1, s2) ==
    LET num1 == first_digit_run(s1)
        num2 == first_digit_run(s2)
    IN  num1 # "" /\ num2 # "" /\ num1 # num2

\* similar_address of sl-api-vis.py
similar_address_vis(a1, a2) ==
    IF a1 = "" \/ a2 = "" THEN FALSE
    ELSE LET addr1_clean == strip(strip_qualifiers(a1))
             addr2_clean == strip(strip_qualifiers(a2))
         IN  IF digit_veto(addr1_clean, addr2_clean) THEN FALSE
             ELSE ratio_above_threshold(lower(addr1_clean), lower(addr2_clean))

\* similar_address of y-api.py and sl-api.py
similar_address(a1, a2) ==
    IF a1 = "" \/ a2 = "" THEN FALSE
    ELSE IF digit_veto(a1, a2) THEN FALSE
         ELSE ratio_above_threshold(lower(a1), lower(a2))

-----------------------------------------------------------------------------
(* The parts of the state a specification does not use stay at these values *)

NormIdle == name = "" /\ norm1 = "" /\ norm2 = "" /\ npc = "idle"

AddrIdle ==
    addr1 = "" /\ addr2 = "" /\ sim_vis = FALSE /\ sim_plain = FALSE /\ apc = "idle"

ResIdle ==
    /\ variant = "vis"
    /\ awards = <<>>
    /\ graph = <<>>
    /\ edge_reasons = <<>>
    /\ seen = {}
    /\ stack = <<>>
    /\ comp = <<>>
    /\ comp_reasons_for_graph = <<>>
    /\ outer_i = 1
    /\ components = <<>>
    /\ returned = <<>>
    /\ rpc = "idle"
    /\ run = 1
    /\ first_run = <<>>

NoFile == [exists |-> FALSE, template_text |-> <<>>]

TplIdle ==
    /\ listing = <<>>
    /\ pdf_files = <<>>
    /\ text_by_pdf = <<>>
    /\ phrase_count = <<>>
    /\ header_footer_count = <<>>
    /\ detected_headers_footers = {}
    /\ detected_template_phrases = {}
    /\ filtered_text = <<>>
    /\ template_file = NoFile
    /\ file_writes = 0
    /\ printed = {}
    /\ pdf_index = 1
    /\ processed_data = <<>>
    /\ tpc = "idle"

\* a percentage is kept exact, as a fraction in lowest terms
Zero == [num |-> 0, den |-> 1]

ImgIdle ==
    /\ images1 = <<>>
    /\ images2 = <<>>
    /\ sim12 = Zero
    /\ sim21 = Zero
    /\ sim_distinct = Zero
    /\ ipc = "idle"

NoCsv == [exists |-> FALSE, rows |-> <<>>]

ReportIdle ==
    /\ data = <<>>
    /\ matches = <<>>
    /\ summary_data = <<>>
    /\ processed_pairs = {}
    /\ processed_rows = 0
    /\ batch_i = 0
    /\ current_batch = 1
    /\ batch_files = <<>>
    /\ file1_k = 1
    /\ image_comparison_tasks = <<>>
    /\ results = <<>>
    /\ running = <<>>
    /\ next_task = 1
    /\ finished = <<>>
    /\ num_cpus = 1
    /\ matches_file = NoCsv
    /\ summary_file = NoCsv
    /\ compared = {}
    /\ reported = {}
    /\ restarts = 0
    /\ cpc = "idle"

DispIdle ==
    /\ caller_awards = <<>>
    /\ comp_k = 1
    /\ comp_rows = <<>>
    /\ group_totals = <<>>
    /\ total_duplicates_amount = 0
    /\ raised = ""
    /\ dpc = "idle"

LatestIdle == dir_listing = <<>> /\ file_prefix = "" /\ latest_file = "" /\ lpc = "idle"

ExtractIdle ==
    /\ image_counts = <<>>
    /\ image_data = <<>>
    /\ outputs = <<>>
    /\ img_index = 0
    /\ pdf_count = 0
    /\ epc = "idle"

NoClick == [clicked |-> FALSE]

\* the button, and with it its callback, is not registered yet
NoCallback == [registered |-> FALSE]

\* "st.session_state.filter_year = 2023 # Default value"
DEFAULT_YEAR == 2023

AppIdle ==
    /\ run_analysis = FALSE
    /\ filter_year = DEFAULT_YEAR /\ filter_agency = "DOD" /\ filter_branch = "USAF"
    /\ input_year = DEFAULT_YEAR /\ input_agency = "DOD" /\ input_branch = "USAF"
    /\ callback = NoCallback
    /\ page_shown = "idle"
    /\ last_click = NoClick
    /\ edited_since_click = FALSE

\* the later sub-models are idle
MoreIdle == DispIdle /\ LatestIdle /\ ExtractIdle /\ AppIdle

DocIdle == TplIdle /\ ImgIdle /\ ReportIdle /\ MoreIdle

\* the parts outside the document pipeline are idle
CoreIdle == NormIdle /\ AddrIdle /\ ResIdle /\ MoreIdle

-----------------------------------------------------------------------------
(* find_duplicate_components: building the graph *)

Range(q) == {q[k] : k \in 1..Len(q)}

\* tuple(sorted((idx1, idx2)))
Pair(i, j) == IF i < j THEN <<i, j>> ELSE <<j, i>>

Pairs(n) == {p \in (1..n) \X (1..n) : p[1] < p[2]}

\* (award.get(field) or "").strip(): a missing key and a None value both read
\* as "", which is how the record holds them
field_value(award, field) == strip(award[field])

\* "if url and url.lower() != 'none'": the value is kept as a key
is_value(v) == v # "" /\ lower(v) # "none"

\* a slip: the raw firm strings are compared, not the normalized ones
add_edge_if_raw_firms_differ(a, idx1, idx2, reason) ==
    IF a[idx1].firm # a[idx2].firm THEN {<<idx1, idx2, reason>>} ELSE {}

\* add_edge_if_firms_differ of sl-api-vis.py: the edges (idx1, idx2, reason) it adds
add_edge_if_firms_differ(a, idx1, idx2, reason) ==
    LET firm_i == normalize_firm_name(a[idx1].firm)
        firm_j == normalize_firm_name(a[idx2].firm)
    IN  IF firm_i # firm_j THEN {<<idx1, idx2, reason>>} ELSE {}

RECURSIVE field_hits(_, _, _, _)
\* the appends of index i to the list of key: one per field holding key
field_hits(award, fields, key, i) ==
    IF fields = <<>> THEN <<>>
    ELSE (IF field_value(award, Head(fields)) = key THEN <<i>> ELSE <<>>)
         \o field_hits(award, Tail(fields), key, i)

RECURSIVE indices_with(_, _, _, _)
\* url_to_indices[key] / phone_to_indices[key]: the list of indices, from i on
indices_with(a, fields, key, i) ==
    IF i > Len(a) THEN <<>>
    ELSE field_hits(a[i], fields, key, i) \o indices_with(a, fields, key, i + 1)

\* the keys of url_to_indices / phone_to_indices
keys_of(a, fields) ==
    {v \in {field_value(a[i], f) : i \in 1..Len(a), f \in Range(fields)} : is_value(v)}

URL_FIELDS == <<"company_url">>
\* a slip: only the first phone field is indexed
POC_ONLY == <<"poc_phone">>
PHONE_FIELDS == <<"poc_phone", "pi_phone">>

\* sl-api-vis.py: the loops over url_to_indices / phone_to_indices
shared_edges_vis(a, fields, tag) ==
    UNION {LET ix == Range(indices_with(a, fields, key, 1))
           IN  UNION {add_edge_if_firms_differ(a, p[1], p[2], tag \o key) :
                         p \in {q \in ix \X ix : q[1] # q[2]}} :
           key \in keys_of(a, fields)}

\* a slip: len(firms) is tested where len(set(firms)) is meant
shared_edges_grp_len(a, fields) ==
    UNION {LET indices == indices_with(a, fields, key, 1)
           IN  IF Len(indices) > 1
               THEN {q \in Range(indices) \X Range(indices) : q[1] # q[2]}
               ELSE {} :
           key \in keys_of(a, fields)}

\* y-api.py, sl-api.py: the loops over url_to_indices / phone_to_indices; a
\* group whose firms list holds two different names is linked all to all
shared_edges_grp(a, fields) ==
    UNION {LET indices == indices_with(a, fields, key, 1)
               firms == [k \in 1..Len(indices) |->
                            normalize_firm_name(a[indices[k]].firm)]
           IN  IF Cardinality(Range(firms)) > 1
               THEN {q \in Range(indices) \X Range(indices) : q[1] # q[2]}
               ELSE {} :
           key \in keys_of(a, fields)}

\* sl-api-vis.py: the pairwise loop over address1
address_edges_vis(a) ==
    UNION {LET addr_i == field_value(a[p[1]], "address1")
               addr_j == field_value(a[p[2]], "address1")
           IN  IF is_value(addr_i) /\ is_value(addr_j)
                  /\ similar_address_vis(addr_i, addr_j)
               THEN add_edge_if_firms_differ(a, p[1], p[2],
                        "similar_address:" \o addr_i \o " vs " \o addr_j)
               ELSE {} :
           p \in Pairs(Len(a))}

\* y-api.py, sl-api.py: the pairwise loop over address1
address_edges_grp(a) ==
    {p \in Pairs(Len(a)) :
        LET addr_i == field_value(a[p[1]], "address1")
            addr_j == field_value(a[p[2]], "address1")
        IN  /\ is_value(addr_i) /\ is_value(addr_j)
            /\ similar_address(addr_i, addr_j)
            /\ normalize_firm_name(a[p[1]].firm) # normalize_firm_name(a[p[2]].firm)}

\* a slip: graph[idx2].add(idx1) is left out
link_one_way(g, E) ==
    [i \in DOMAIN g |-> g[i] \cup {e[2] : e \in {x \in E : x[1] = i}}]

\* graph[i].add(j); graph[j].add(i) for every edge of E
link(g, E) ==
    [i \in DOMAIN g |->
        g[i] \cup {e[2] : e \in {x \in E : x[1] = i}}
             \cup {e[1] : e \in {x \in E : x[2] = i}}]

\* edge_reasons[tuple(sorted((idx1, idx2)))].add(reason) for every edge of E
tag_edges(er, E) ==
    [p \in DOMAIN er |-> er[p] \cup {e[3] : e \in {x \in E : Pair(x[1], x[2]) = p}}]

-----------------------------------------------------------------------------
(* find_duplicate_components: the state machine *)

\* the record lists the function is run on
Acme1  == [firm |-> "Acme Inc", company_url |-> "x.io", poc_phone |-> "555",
           pi_phone |-> "", address1 |-> "1 main"]
Acme2  == [firm |-> "Acme  LLC", company_url |-> "x.io", poc_phone |-> "",
           pi_phone |-> " 555 ", address1 |-> "1 Main"]
Beta1  == [firm |-> "Beta Co.", company_url |-> "", poc_phone |-> "555",
           pi_phone |-> "", address1 |-> ""]
Zenith == [firm |-> "Zenith", company_url |-> "x.io", poc_phone |-> "none",
           pi_phone |-> "555", address1 |-> "2 main"]
Beta2  == [firm |-> "beta", company_url |-> "", poc_phone |-> "777",
           pi_phone |-> "777", address1 |-> "1 main Apt.1"]
Gamma  == [firm |-> "Gamma", company_url |-> "None", poc_phone |-> " ",
           pi_phone |-> "none", address1 |-> "none"]

RecordPool == {Acme1, Acme2, Beta1, Zenith, Beta2, Gamma}

RecordLists == UNION {[1..k -> RecordPool] : k \in 0..MaxRecords}

\* the orders a set can be iterated in
Orders(S) ==
    {f \in [1..Cardinality(S) -> S] : \A x, y \in DOMAIN f : x # y => f[x] # f[y]}

\* the state at line 154 of sl-api-vis.py before any edge is added: graph and
\* edge_reasons empty, nothing seen
Entry(v, a, r, first) ==
    /\ variant = v
    /\ awards = a
    /\ graph = [i \in 1..Len(a) |-> {}]
    /\ edge_reasons = [p \in Pairs(Len(a)) |-> {}]
    /\ seen = {}
    /\ stack = <<>>
    /\ comp = <<>>
    /\ comp_reasons_for_graph = [p \in Pairs(Len(a)) |-> {}]
    /\ outer_i = 1
    /\ components = <<>>
    /\ returned = <<>>
    /\ rpc = "url"
    /\ run = r
    /\ first_run = first

Init ==
    /\ \E v \in {"vis", "grp"}, a \in RecordLists : Entry(v, a, 1, <<>>)
    /\ NormIdle
    /\ AddrIdle
    /\ DocIdle

dfsVars == <<seen, stack, comp, comp_reasons_for_graph, outer_i, components,
             returned>>

GroupByUrlVis ==
    /\ rpc = "url" /\ variant = "vis"
    /\ LET E == shared_edges_vis(awards, URL_FIELDS, "shared_url:")
       IN  graph' = link(graph, E) /\ edge_reasons' = tag_edges(edge_reasons, E)
    /\ rpc' = "phone"
    /\ UNCHANGED <<docVars, variant, awards, dfsVars, run, first_run, normVars, addrVars>>

GroupByUrlGrp ==
    /\ rpc = "url" /\ variant = "grp"
    /\ graph' = link(graph, shared_edges_grp(awards, URL_FIELDS))
    /\ rpc' = "phone"
    /\ UNCHANGED <<docVars, variant, awards, edge_reasons, dfsVars, run, first_run,
                   normVars, addrVars>>

GroupByPhoneVis ==
    /\ rpc = "phone" /\ variant = "vis"
    /\ LET E == shared_edges_vis(awards, PHONE_FIELDS, "shared_phone:")
       IN  graph' = link(graph, E) /\ edge_reasons' = tag_edges(edge_reasons, E)
    /\ rpc' = "addr"
    /\ UNCHANGED <<docVars, variant, awards, dfsVars, run, first_run, normVars, addrVars>>

GroupByPhoneGrp ==
    /\ rpc = "phone" /\ variant = "grp"
    /\ graph' = link(graph, shared_edges_grp(awards, PHONE_FIELDS))
    /\ rpc' = "addr"
    /\ UNCHANGED <<docVars, variant, awards, edge_reasons, dfsVars, run, first_run,
                   normVars, addrVars>>

PairwiseAddressVis ==
    /\ rpc = "addr" /\ variant = "vis"
    /\ LET E == address_edges_vis(awards)
       IN  graph' = link(graph, E) /\ edge_reasons' = tag_edges(edge_reasons, E)
    /\ rpc' = "outer"
    /\ UNCHANGED <<docVars, variant, awards, dfsVars, run, first_run, normVars, addrVars>>

PairwiseAddressGrp ==
    /\ rpc = "addr" /\ variant = "grp"
    /\ graph' = link(graph, address_edges_grp(awards))
    /\ rpc' = "outer"
    /\ UNCHANGED <<docVars, variant, awards, edge_reasons, dfsVars, run, first_run,
                   normVars, addrVars>>

builtVars == <<variant, awards, graph, edge_reasons, run, first_run>>

\* "for i in range(n): if i not in seen": a new component starts at i
StartComponent ==
    /\ rpc = "outer" /\ outer_i <= Len(awards) /\ outer_i \notin seen
    /\ stack' = <<outer_i>>
    /\ comp' = <<>>
    /\ comp_reasons_for_graph' = [p \in Pairs(Len(awards)) |-> {}]
    /\ rpc' = "dfs"
    /\ UNCHANGED <<docVars, builtVars, seen, outer_i, components, returned, normVars,
                   addrVars>>

\* "for i in range(n)" with i already seen
SkipSeen ==
    /\ rpc = "outer" /\ outer_i <= Len(awards) /\ outer_i \in seen
    /\ outer_i' = outer_i + 1
    /\ UNCHANGED <<docVars, builtVars, seen, stack, comp, comp_reasons_for_graph,
                   components, returned, rpc, normVars, addrVars>>

\* "cur = stack.pop(); if cur in seen: continue"
PopSeen ==
    /\ rpc = "dfs" /\ stack # <<>> /\ stack[Len(stack)] \in seen
    /\ stack' = SubSeq(stack, 1, Len(stack) - 1)
    /\ UNCHANGED <<docVars, builtVars, seen, comp, comp_reasons_for_graph, outer_i,
                   components, returned, rpc, normVars, addrVars>>

\* a slip: the loop over the neighbours stops after its first push
push_first(stk, order) == IF order = <<>> THEN stk ELSE Append(stk, order[1])

\* "for neigh in graph[cur]: if neigh not in seen: stack.append(neigh)", the
\* unseen neighbours met in the order `order`
push_unseen(stk, order) == stk \o order

\* the reasons collected while cur is visited: every pair (cur, neigh) that
\* is a key of edge_reasons
collect_reasons(cr, er, g, cur) ==
    [p \in DOMAIN cr |->
        IF (\E neigh \in g[cur] : Pair(cur, neigh) = p) /\ er[p] # {}
        THEN cr[p] \cup er[p]
        ELSE cr[p]]

\* one turn of "while stack" for an unseen cur, sl-api-vis.py
VisitVis ==
    /\ rpc = "dfs" /\ variant = "vis"
    /\ stack # <<>> /\ stack[Len(stack)] \notin seen
    /\ LET cur == stack[Len(stack)]
       IN  /\ seen' = seen \cup {cur}
           /\ comp' = Append(comp, cur)
           /\ \E order \in Orders(graph[cur] \ (seen \cup {cur})) :
                 stack' = push_unseen(SubSeq(stack, 1, Len(stack) - 1), order)
           /\ comp_reasons_for_graph' =
                 collect_reasons(comp_reasons_for_graph, edge_reasons, graph, cur)
    /\ UNCHANGED <<docVars, builtVars, outer_i, components, returned, rpc, normVars,
                   addrVars>>

\* one turn of "while stack" for an unseen cur, y-api.py and sl-api.py
VisitGrp ==
    /\ rpc = "dfs" /\ variant = "grp"
    /\ stack # <<>> /\ stack[Len(stack)] \notin seen
    /\ LET cur == stack[Len(stack)]
       IN  /\ seen' = seen \cup {cur}
           /\ comp' = Append(comp, cur)
           /\ \E order \in Orders(graph[cur] \ (seen \cup {cur})) :
                 stack' = push_unseen(SubSeq(stack, 1, Len(stack) - 1), order)
    /\ UNCHANGED <<docVars, builtVars, comp_reasons_for_graph, outer_i, components,
                   returned, rpc, normVars, addrVars>>

\* a slip: a component of one record passes the size test
keep_any_size(a, c) ==
    Len(c) >= 1

\* "len(comp) >= 2" and "len(firm_set) > 1"
keep_component(a, c) ==
    /\ Len(c) >= 2
    /\ Cardinality({normalize_firm_name(a[idx].firm) : idx \in Range(c)}) > 1

\* the stack is empty, sl-api-vis.py: the component is filtered and kept
EndComponentVis ==
    /\ rpc = "dfs" /\ variant = "vis" /\ stack = <<>>
    /\ returned' =
          IF keep_component(awards, comp)
          THEN Append(returned,
                      [comp_indices |-> comp,
                       comp_reasons_for_graph |-> comp_reasons_for_graph])
          ELSE returned
    /\ outer_i' = outer_i + 1
    /\ rpc' = "outer"
    /\ UNCHANGED <<docVars, builtVars, seen, stack, comp, comp_reasons_for_graph,
                   components, normVars, addrVars>>

\* the stack is empty, y-api.py and sl-api.py: components.append(comp)
EndComponentGrp ==
    /\ rpc = "dfs" /\ variant = "grp" /\ stack = <<>>
    /\ components' = Append(components, comp)
    /\ outer_i' = outer_i + 1
    /\ rpc' = "outer"
    /\ UNCHANGED <<docVars, builtVars, seen, stack, comp, comp_reasons_for_graph,
                   returned, normVars, addrVars>>

\* "return components_with_reasons"
ReturnVis ==
    /\ rpc = "outer" /\ variant = "vis" /\ outer_i > Len(awards)
    /\ rpc' = "done"
    /\ UNCHANGED <<docVars, builtVars, dfsVars, normVars, addrVars>>

\* a slip: the loop that filters the components is left out
final_components_unfiltered(a, cs) == cs

RECURSIVE final_components(_, _)
\* the loop "for comp in components" that builds final_components
final_components(a, cs) ==
    IF cs = <<>> THEN <<>>
    ELSE (IF keep_component(a, Head(cs)) THEN <<Head(cs)>> ELSE <<>>)
         \o final_components(a, Tail(cs))

\* the filter loop and "return final_components"
ReturnGrp ==
    /\ rpc = "outer" /\ variant = "grp" /\ outer_i > Len(awards)
    /\ returned' = final_components(awards, components)
    /\ rpc' = "done"
    /\ UNCHANGED <<docVars, builtVars, seen, stack, comp, comp_reasons_for_graph, outer_i,
                   components, normVars, addrVars>>

\* the member indices of entry e of the returned list
group_indices(e) == IF variant = "vis" THEN e.comp_indices ELSE e

\* the returned groups, each as a set of indices
Groups == {Range(group_indices(returned[k])) : k \in 1..Len(returned)}

\* the caller runs the function a second time on the same, unmodified list
SecondRun ==
    /\ rpc = "done" /\ run = 1
    /\ first_run' = [returned |-> returned, groups |-> Groups, graph |-> graph,
                      edge_reasons |-> edge_reasons]
    /\ run' = 2
    /\ graph' = [i \in 1..Len(awards) |-> {}]
    /\ edge_reasons' = [p \in Pairs(Len(awards)) |-> {}]
    /\ seen' = {}
    /\ stack' = <<>>
    /\ comp' = <<>>
    /\ comp_reasons_for_graph' = [p \in Pairs(Len(awards)) |-> {}]
    /\ outer_i' = 1
    /\ components' = <<>>
    /\ returned' = <<>>
    /\ rpc' = "url"
    /\ UNCHANGED <<docVars, variant, awards, normVars, addrVars>>

Next ==
    \/ GroupByUrlVis \/ GroupByUrlGrp
    \/ GroupByPhoneVis \/ GroupByPhoneGrp
    \/ PairwiseAddressVis \/ PairwiseAddressGrp
    \/ StartComponent \/ SkipSeen \/ PopSeen
    \/ VisitVis \/ VisitGrp
    \/ EndComponentVis \/ EndComponentGrp
    \/ ReturnVis \/ ReturnGrp

\* one call of find_duplicate_components
Spec == Init /\ [][Next]_vars

NextTwoRuns == Next \/ SecondRun

\* two calls of find_duplicate_components on the same list
SpecTwoRuns == Init /\ [][NextTwoRuns]_vars

-----------------------------------------------------------------------------
(* Properties of find_duplicate_components *)

N == Len(awards)

\* the normalized firm name of record i
Norm(i) == normalize_firm_name(awards[i].firm)

\* the stripped value of a field of record i
Val(i, f) == strip(awards[i][f])

Phones(i) == {Val(i, "poc_phone"), Val(i, "pi_phone")}

\* the records the graph joins to record i by a path of edges
RECURSIVE Closure(_)
Closure(S) ==
    LET T == S \cup UNION {graph[x] : x \in S}
    IN  IF T = S THEN S ELSE Closure(T)

Connected(i, j) == j \in Closure({i})

Group(k) == Range(group_indices(returned[k]))

\* C1: in the edge-tagging resolver two records with equal normalized firm
\* names are never neighbours and their pair never has a reason.
\* (stated from the edge: a pair that is adjacent or has a reason has two
\* different normalized names)
C1_NoSameFirmEdgeVis ==
    variant = "vis" =>
        \A i, j \in 1..N :
            (i # j /\ (j \in graph[i] \/ edge_reasons[Pair(i, j)] # {})) =>
                Norm(i) # Norm(j)

\* two records of one firm share URL, phone and address and stay unlinked,
\* while the graph holds other edges
C1_Witness ==
    /\ variant = "vis" /\ rpc = "done"
    /\ \E i, j \in 1..N :
          /\ i # j /\ Norm(i) = Norm(j)
          /\ Val(i, "company_url") = Val(j, "company_url")
          /\ Val(i, "company_url") # ""
          /\ (Phones(i) \cap Phones(j)) \ {""} # {}
          /\ similar_address_vis(Val(i, "address1"), Val(j, "address1"))
          /\ j \notin graph[i]
          /\ graph[i] # {}

\* C2: in the group-based resolver two records with equal normalized firm
\* names are never neighbours.
C2_NoSameFirmEdgeGrp ==
    variant = "grp" =>
        \A i, j \in 1..N : (i # j /\ Norm(i) = Norm(j)) => j \notin graph[i]

C4_TwoRecordsTwoFirms ==
    \A k \in 1..Len(returned) :
        /\ Len(group_indices(returned[k])) >= 2
        /\ Cardinality(Group(k)) >= 2
        /\ Cardinality({Norm(i) : i \in Group(k)}) >= 2

\* a run that returns a group and leaves a component of one record out
C4_Witness ==
    /\ rpc = "done"
    /\ Len(returned) >= 1
    /\ \E i \in 1..N : graph[i] = {} /\ \A k \in 1..Len(returned) : i \notin Group(k)

\* records i and j share a URL / have similar addresses, as the properties below mean it
SharesUrl(i, j) ==
    Val(i, "company_url") = Val(j, "company_url") /\ Val(i, "company_url") # ""

SharesAddress(i, j) ==
    /\ Val(i, "address1") # "" /\ Val(j, "address1") # ""
    /\ IF variant = "vis"
       THEN similar_address_vis(Val(i, "address1"), Val(j, "address1"))
       ELSE similar_address(Val(i, "address1"), Val(j, "address1"))

\* the phone values both records of a two-record list hold, as written
RawSharedPhones ==
    {awards[1][f] : f \in Range(PHONE_FIELDS)} \cap
    {awards[2][f] : f \in Range(PHONE_FIELDS)}

\* the list is two records of different firms that share nothing but phones
TwoFirmsPhoneOnly ==
    /\ N = 2
    /\ Norm(1) # Norm(2)
    /\ ~SharesUrl(1, 2)
    /\ ~SharesAddress(1, 2)

\* the result is one group holding both records, its pair tagged with phone p
OneGroupTagged(p) ==
    /\ Len(returned) = 1
    /\ Group(1) = {1, 2}
    /\ variant = "vis" =>
          ("shared_phone:" \o p) \in returned[1].comp_reasons_for_graph[<<1, 2>>]

\* C5 as stated: two records of different firms that hold the same non-empty
\* phone value and share nothing else give exactly one group of both, tagged
\* shared_phone:<the value>.
C5_AnyNonEmptyPhone ==
    (rpc = "done" /\ TwoFirmsPhoneOnly) =>
        \A p \in RawSharedPhones : p # "" => OneGroupTagged(p)

\* C5 amended: the same for a phone value that, once stripped, is neither
\* empty nor the word "none" in any letter case; the tag carries the stripped
\* value.
C5_SharedPhoneGroup ==
    (rpc = "done" /\ TwoFirmsPhoneOnly) =>
        \A p \in Phones(1) \cap Phones(2) :
            (p # "" /\ lower(p) # "none") => OneGroupTagged(p)

\* the phone is the poc_phone of one record and the pi_phone of the other
C5_Witness ==
    /\ rpc = "done" /\ variant = "vis" /\ TwoFirmsPhoneOnly
    /\ \E p \in Phones(1) \cap Phones(2) :
          /\ p # "" /\ lower(p) # "none"
          /\ Val(1, "poc_phone") = p /\ Val(2, "poc_phone") # p
          /\ OneGroupTagged(p)

SharesPhone(i, j) == \E p \in Phones(i) \cap Phones(j) : p # "" /\ lower(p) # "none"

SharesSomething(i, j) == SharesUrl(i, j) \/ SharesPhone(i, j) \/ SharesAddress(i, j)

\* C6: when the only records that share a value are records of one firm, no
\* edge is created and no group is returned.
\* (stated from the result: an edge or a returned group means that two records
\* of different firms share a value)
C6_SameFirmSharingNoGroup ==
    ((\E i \in 1..N : graph[i] # {}) \/ returned # <<>>) =>
        \E i, j \in 1..N : i # j /\ Norm(i) # Norm(j) /\ SharesSomething(i, j)

\* "Acme Inc" and "Acme LLC" share a phone, a third record shares nothing
C6_Witness ==
    /\ rpc = "done" /\ variant = "grp" /\ N = 3
    /\ \A i, j \in 1..N : (i # j /\ SharesSomething(i, j)) => Norm(i) = Norm(j)
    /\ \E i, j \in 1..N :
          /\ i # j /\ SharesPhone(i, j)
          /\ awards[i].firm # awards[j].firm
          /\ \E c \in 1..N : \A x \in 1..N : x # c => ~SharesSomething(c, x)
    /\ returned = <<>>

startswith(s, prefix) ==
    Len(s) >= Len(prefix) /\ SubSeq(s, 1, Len(prefix)) = prefix

after(s, prefix) == SubSeq(s, Len(prefix) + 1, Len(s))

\* reason r says something true of records i < j
Truthful(r, i, j) ==
    \/ /\ startswith(r, "shared_url:")
       /\ Val(i, "company_url") = after(r, "shared_url:")
       /\ Val(j, "company_url") = after(r, "shared_url:")
    \/ /\ startswith(r, "shared_phone:")
       /\ after(r, "shared_phone:") \in Phones(i) \cap Phones(j)
    \/ /\ startswith(r, "similar_address:")
       /\ after(r, "similar_address:")
             = Val(i, "address1") \o " vs " \o Val(j, "address1")
       /\ similar_address_vis(Val(i, "address1"), Val(j, "address1"))

\* C7: in sl-api-vis.py j is a neighbour of i exactly when the pair has a
\* reason, and every reason of a pair is true of its two records.
C7_ReasonsTruthful ==
    variant = "vis" =>
        \A i, j \in 1..N :
            i < j =>
                /\ (j \in graph[i]) <=> (edge_reasons[<<i, j>>] # {})
                /\ (i \in graph[j]) <=> (edge_reasons[<<i, j>>] # {})
                /\ \A r \in edge_reasons[<<i, j>>] : Truthful(r, i, j) /\ r # ""

\* a pair with a URL reason and a phone reason, and a pair with an address reason
C7_Witness ==
    /\ variant = "vis" /\ rpc = "done"
    /\ \E p \in Pairs(N) :
          /\ \E r \in edge_reasons[p] : startswith(r, "shared_url:")
          /\ \E r \in edge_reasons[p] : startswith(r, "shared_phone:")
    /\ \E p \in Pairs(N) :
          \E r \in edge_reasons[p] : startswith(r, "similar_address:")

\* C8: a second run on the same list returns the same groups, as sets of
\* indices, and builds the same edges with the same reasons, whatever order
\* the neighbour sets are iterated in.
C8_SecondRunAgrees ==
    (rpc = "done" /\ run = 2) =>
        /\ Groups = first_run.groups
        /\ Len(returned) = Len(first_run.returned)
        /\ graph = first_run.graph
        /\ edge_reasons = first_run.edge_reasons

\* the two runs walked a group in different orders
C8_Witness ==
    /\ rpc = "done" /\ run = 2
    /\ returned # first_run.returned
    /\ Groups = first_run.groups
    /\ Groups # {}

-----------------------------------------------------------------------------
(* Driver of normalize_firm_name: applies it once, then to its own result *)

NameTokens == {"a", "B", " ", "\t", ".", ",", " inc", " LLC", " corp", " co",
               " corporation"}

RECURSIVE Concats(_, _)
\* all concatenations of at most k tokens of T
Concats(T, k) ==
    IF k = 0 THEN {""}
    ELSE LET shorter == Concats(T, k - 1)
         IN  shorter \cup {s \o t : s \in shorter, t \in T}

NameInputs == Concats(NameTokens, MaxNameTokens)

InitNorm ==
    /\ name \in NameInputs
    /\ norm1 = ""
    /\ norm2 = ""
    /\ npc = "in"
    /\ AddrIdle
    /\ ResIdle
    /\ DocIdle

NormalizeOnce ==
    /\ npc = "in"
    /\ norm1' = normalize_firm_name(name)
    /\ npc' = "once"
    /\ UNCHANGED <<docVars, name, norm2, addrVars, resVars>>

NormalizeTwice ==
    /\ npc = "once"
    /\ norm2' = normalize_firm_name(norm1)
    /\ npc' = "twice"
    /\ UNCHANGED <<docVars, name, norm1, addrVars, resVars>>

NextNorm == NormalizeOnce \/ NormalizeTwice

SpecNorm == InitNorm /\ [][NextNorm]_vars

\* C10: normalize_firm_name is idempotent: normalizing a normalized name
\* gives the same string.
C10_Idempotent == npc = "twice" => norm2 = norm1

-----------------------------------------------------------------------------
(* Driver of similar_address: applies both variants to a pair of addresses *)

AddrTokens == {"1", "2", " main", " Apt.1", "unit 2"}

AddrInputs == Concats(AddrTokens, MaxAddrTokens)

InitAddr ==
    /\ addr1 \in AddrInputs
    /\ addr2 \in AddrInputs
    /\ sim_vis = FALSE
    /\ sim_plain = FALSE
    /\ apc = "in"
    /\ NormIdle
    /\ ResIdle
    /\ DocIdle

CompareVis ==
    /\ apc = "in"
    /\ sim_vis' = similar_address_vis(addr1, addr2)
    /\ apc' = "vis"
    /\ UNCHANGED <<docVars, addr1, addr2, sim_plain, normVars, resVars>>

ComparePlain ==
    /\ apc = "vis"
    /\ sim_plain' = similar_address(addr1, addr2)
    /\ apc' = "plain"
    /\ UNCHANGED <<docVars, addr1, addr2, sim_vis, normVars, resVars>>

NextAddr == CompareVis \/ ComparePlain

SpecAddr == InitAddr /\ [][NextAddr]_vars

\* what a property about addresses means by "the digit runs differ": both strings
\* hold a digit and their leftmost maximal runs of digits are different strings
HasDigitRun(s) == \E i \in 1..Len(s) : IsDigit(Char(s, i))

LeftmostRun(s) ==
    LET i == CHOOSE x \in 1..Len(s) :
                 IsDigit(Char(s, x)) /\ \A k \in 1..(x - 1) : ~IsDigit(Char(s, k))
        j == CHOOSE y \in i..Len(s) :
                 /\ \A k \in i..y : IsDigit(Char(s, k))
                 /\ (y = Len(s) \/ ~IsDigit(Char(s, y + 1)))
    IN  SubSeq(s, i, j)

RunsDiffer(s1, s2) ==
    HasDigitRun(s1) /\ HasDigitRun(s2) /\ LeftmostRun(s1) # LeftmostRun(s2)

\* the string sl-api-vis.py searches for the house number
Cleaned(a) == strip(strip_qualifiers(a))

\* C9 as stated: whenever both input addresses hold a digit run and the runs
\* differ, both variants of similar_address return False.
C9_VetoOnInputs ==
    (apc = "plain" /\ RunsDiffer(addr1, addr2)) => (~sim_vis /\ ~sim_plain)

\* C9 amended: similar_address returns False whenever the strings it searches
\* for a house number (the addresses themselves in y-api.py / sl-api.py, the
\* addresses with the apt/suite/unit qualifiers removed and stripped in
\* sl-api-vis.py) both hold a digit run and their first digit runs differ.
C9_VetoOnSearched ==
    apc = "plain" =>
        /\ RunsDiffer(addr1, addr2) => ~sim_plain
        /\ RunsDiffer(Cleaned(addr1), Cleaned(addr2)) => ~sim_vis

\* two addresses a house number apart whose text alone would pass the
\* threshold, rejected by both variants
C9_Witness ==
    /\ apc = "plain"
    /\ RunsDiffer(addr1, addr2)
    /\ RunsDiffer(Cleaned(addr1), Cleaned(addr2))
    /\ ratio_above_threshold(lower(addr1), lower(addr2))
    /\ ratio_above_threshold(lower(Cleaned(addr1)), lower(Cleaned(addr2)))
    /\ ~sim_vis
    /\ ~sim_plain

-----------------------------------------------------------------------------
(* Text primitives of the document pipeline *)

\* [a-z]; with the upper-case letters, the digits and "_" this is \w
LOWER_LETTERS == {LOWER_OF[k] : k \in DOMAIN LOWER_OF}

IsWordChar(c) ==
    c \in DOMAIN LOWER_OF \/ c \in LOWER_LETTERS \/ IsDigit(c) \/ c = "_"

RECURSIVE keep_chars(_, _)
\* re.sub(r"[^\w\s<extra>]", "", s)
keep_chars(s, extra) ==
    IF s = "" THEN ""
    ELSE (IF IsWordChar(Head(s)) \/ IsSpace(Head(s)) \/ Head(s) \in extra
          THEN Head(s) ELSE "")
         \o keep_chars(Tail(s), extra)

RECURSIVE space_after(_, _)
\* re.sub(r"([<puncts>])([^\s])", r"\1 \2", s): matches do not overlap
space_after(s, puncts) ==
    IF Len(s) < 2 THEN s
    ELSE IF Head(s) \in puncts /\ ~IsSpace(Char(s, 2))
         THEN Head(s) \o " " \o Char(s, 2) \o space_after(drop(s, 2), puncts)
         ELSE Head(s) \o space_after(Tail(s), puncts)

RECURSIVE word_span(_)
\* length of the longest prefix of s without whitespace
word_span(s) == IF s # "" /\ ~IsSpace(Head(s)) THEN 1 + word_span(Tail(s)) ELSE 0

RECURSIVE split(_)
\* str.split(): the words between runs of whitespace
split(s) ==
    LET t == lstrip(s)
    IN  IF t = "" THEN <<>>
        ELSE <<SubSeq(t, 1, word_span(t))>> \o split(drop(t, word_span(t)))

RECURSIVE join(_, _)
\* sep.join(q)
join(q, sep) ==
    IF q = <<>> THEN ""
    ELSE IF Len(q) = 1 THEN q[1]
         ELSE q[1] \o sep \o join(Tail(q), sep)

RECURSIVE re_split_after(_, _, _)
\* re.split(r"(?<=[<puncts>])\s+", s): cur is the piece read so far
re_split_after(s, puncts, cur) ==
    IF s = "" THEN <<cur>>
    ELSE IF IsSpace(Head(s)) /\ cur # "" /\ Char(cur, Len(cur)) \in puncts
         THEN <<cur>> \o re_split_after(lstrip(s), puncts, "")
         ELSE re_split_after(Tail(s), puncts, cur \o Head(s))

RECURSIVE strip_all(_)
strip_all(q) == IF q = <<>> THEN <<>> ELSE <<strip(Head(q))>> \o strip_all(Tail(q))

\* [s.strip() for s in re.split(r"(?<=[<puncts>])\s+", text) if s.strip()]
sentences_of(text, puncts) ==
    LET NonEmpty(x) == x # ""
    IN  SelectSeq(strip_all(re_split_after(text, puncts, "")), NonEmpty)

\* c[k] += 1 on a defaultdict(int)
inc(c, k) == IF k \in DOMAIN c THEN [c EXCEPT ![k] = @ + 1] ELSE c @@ (k :> 1)

RECURSIVE inc_all(_, _)
inc_all(c, ks) == IF ks = <<>> THEN c ELSE inc_all(inc(c, Head(ks)), Tail(ks))

-----------------------------------------------------------------------------
(* 0A-template.py *)

PUNCT_0A == {".", ",", "!", "?", ";", ":"}
SENTENCE_END_0A == {".", "!", "?", ";", ":"}

clean_page_text(text) ==
    LET t1 == strip(lower(text))
        t2 == keep_chars(t1, PUNCT_0A)
        t3 == space_after(t2, PUNCT_0A)
    IN  strip(collapse_ws(t3))

RECURSIVE extract_text_from_pdf(_)
\* sentences_by_page of a PDF whose pages hold one text container each: the
\* pages without text are left out, the others are cleaned
extract_text_from_pdf(pages) ==
    IF pages = <<>> THEN <<>>
    ELSE (IF strip(Head(pages)) # "" THEN <<clean_page_text(strip(Head(pages)))>>
          ELSE <<>>)
         \o extract_text_from_pdf(Tail(pages))

\* the sliding window as a per-page list: "for i in range(len(words) - 6)"
phrases_of(words) ==
    [i \in 1..Max({Len(words) - 6, 0}) |-> join(SubSeq(words, i, i + 5), " ")]

\* lines 75-77: the first and the last sentence of a page of more than 2
header_footer_of(sentences) ==
    IF Len(sentences) > 2 THEN <<sentences[1], sentences[Len(sentences)]>> ELSE <<>>

RECURSIVE count_pages(_, _)
\* the loop "for page_text in pages" on the pair of counters
count_pages(counts, pages) ==
    IF pages = <<>> THEN counts
    ELSE LET page_text == clean_page_text(Head(pages))
             sentences == sentences_of(page_text, SENTENCE_END_0A)
             words == split(page_text)
         IN  count_pages(
                 [hf |-> inc_all(counts.hf, header_footer_of(sentences)),
                  ph |-> inc_all(counts.ph, phrases_of(words))],
                 Tail(pages))

\* int(0.5 * total_pdfs)
header_footer_threshold(total_pdfs) == total_pdfs \div 2

\* int(0.7 * total_pdfs); the float product truncates to this for every
\* total below 90
phrase_threshold(total_pdfs) == (7 * total_pdfs) \div 10

detected(counts, threshold) == {k \in DOMAIN counts : counts[k] >= threshold}

\* lines 116-120: the words left once a template phrase the sentence starts
\* with is removed
remove_template_prefix(words, template_phrases) ==
    LET starts == {t \in template_phrases :
                      LET template_words == split(t)
                      IN  SubSeq(words, 1, Min({Len(template_words), Len(words)}))
                              = template_words}
    IN  IF starts = {} THEN words
        ELSE drop(words, Len(split(CHOOSE t \in starts : TRUE)))

RECURSIVE clean_sentences(_, _)
clean_sentences(sentences, template_phrases) ==
    IF sentences = <<>> THEN <<>>
    ELSE <<join(remove_template_prefix(split(Head(sentences)), template_phrases), " ")>>
         \o clean_sentences(Tail(sentences), template_phrases)

RECURSIVE filter_pages(_, _)
\* lines 103-125 over the pages of one PDF
filter_pages(pages, template_phrases) ==
    IF pages = <<>> THEN <<>>
    ELSE LET page_text == clean_page_text(Head(pages))
             all == sentences_of(page_text, SENTENCE_END_0A)
             sentences == IF Len(all) > 2 THEN SubSeq(all, 2, Len(all) - 1) ELSE all
             cleaned_sentences == clean_sentences(sentences, template_phrases)
         IN  (IF cleaned_sentences # <<>> THEN <<join(cleaned_sentences, ". ")>>
              ELSE <<>>)
             \o filter_pages(Tail(pages), template_phrases)

RECURSIVE filter_pdfs(_, _)
\* line 102: over text_by_pdf
filter_pdfs(tbp, template_phrases) ==
    IF tbp = <<>> THEN <<>>
    ELSE filter_pages(Head(tbp).pages, template_phrases)
         \o filter_pdfs(Tail(tbp), template_phrases)

\* a slip: a single document is enough to run
refuses_below_one(files) == Len(files) < 1

\* main: "if len(pdf_files) < 2"
refuses(files) == Len(files) < 2

-----------------------------------------------------------------------------
(* 0B-process.py: the text of a document with the template text left out *)

KEPT_0B == {".", ",", "!", "?", "-"}
SENTENCE_END_0B == {".", "!", "?"}

clean_text(text) == keep_chars(collapse_ws(strip(lower(text))), KEPT_0B)

get_ngrams(text, n) ==
    LET words == split(text)
    IN  IF Len(words) < n THEN {}
        ELSE {join(SubSeq(words, i, i + n - 1), " ") : i \in 1..(Len(words) - n + 1)}

\* load_template_text: the set of the strings of the file, empty without a file
load_template_text(file) == IF file.exists THEN Range(file.template_text) ELSE {}

\* lines 154-166: the sentence is dropped when more than 0.7 of the 5-grams of
\* some template string are 5-grams of the sentence
skip_sentence(sentence, normalized_templates) ==
    LET sentence_ngrams == get_ngrams(clean_text(sentence), 5)
    IN  \E templ \in normalized_templates :
            LET templ_ngrams == get_ngrams(templ, 5)
            IN  /\ templ_ngrams # {}
                /\ 10 * Cardinality(sentence_ngrams \cap templ_ngrams)
                       > 7 * Cardinality(templ_ngrams)

RECURSIVE text_by_page_from(_, _, _)
\* extract_text_from_pdf of 0B-process.py, from page page_number on: the dict
\* text_by_page as a function on the page numbers it holds
text_by_page_from(pages, page_number, normalized_templates) ==
    IF page_number > Len(pages) THEN <<>>
    ELSE LET text == strip(pages[page_number])
             sentences == sentences_of(clean_text(text), SENTENCE_END_0B)
             Kept(x) == ~skip_sentence(x, normalized_templates)
             filtered_sentences == SelectSeq(sentences, Kept)
             rest == text_by_page_from(pages, page_number + 1, normalized_templates)
         IN  IF text # "" /\ filtered_sentences # <<>>
             THEN (page_number :> join(filtered_sentences, "\n")) @@ rest
             ELSE rest

extract_text_from_pdf_0B(pages, template_text) ==
    text_by_page_from(pages, 1,
                      {clean_text(x) : x \in {t \in template_text : strip(t) # ""}})

-----------------------------------------------------------------------------
(* The template pipeline as a state machine: main of 0A-template.py over the *)
(* directory, then main of 0B-process.py over the same directory            *)

\* number of entries of the directory in the small corpora
MaxDocs == 3

\* raw page texts
FormPage == "A b c d e f g."
FramedPage == "Top. a b c d e f g h. End."
OwnPage == "Unique x#y stuff."
BlankPage == "  "

DocA == [file |-> "a.pdf", pages |-> <<FormPage>>]
DocB == [file |-> "b.pdf", pages |-> <<FormPage, BlankPage, FormPage>>]
DocC == [file |-> "c.pdf", pages |-> <<FramedPage, OwnPage>>]
DocD == [file |-> "d.pdf", pages |-> <<OwnPage>>]
Note == [file |-> "n.txt", pages |-> <<FormPage>>]

EntryPool == {DocA, DocB, DocC, DocD, Note}

\* the directory listings of at most MaxDocs entries, no file twice
Listings ==
    UNION {{q \in [1..n -> EntryPool] : \A i, j \in 1..n : i # j => q[i] # q[j]} :
           n \in 0..MaxDocs}

DIGITS == <<"0", "1", "2", "3", "4", "5", "6", "7", "8", "9">>

\* a page of document k that no other document holds
OwnPageOf(k) ==
    LET d == DIGITS[k]
    IN  "p" \o d \o " q" \o d \o " r" \o d \o " s" \o d \o " t" \o d \o " u" \o d
            \o " v" \o d \o " w" \o d \o "."

\* the corpus of 10 documents of which the first m hold the form page
TenDocs(m) ==
    [k \in 1..10 |->
        [file |-> DIGITS[k] \o ".pdf",
         pages |-> IF k <= m THEN <<OwnPageOf(k), FormPage>> ELSE <<OwnPageOf(k)>>]]

OldFile == [exists |-> TRUE, template_text |-> <<"an earlier run">>]

InitTemplate ==
    /\ listing \in Listings \cup {TenDocs(m) : m \in 0..10}
    /\ pdf_files = <<>>
    /\ text_by_pdf = <<>>
    /\ phrase_count = <<>>
    /\ header_footer_count = <<>>
    /\ detected_headers_footers = {}
    /\ detected_template_phrases = {}
    /\ filtered_text = <<>>
    /\ template_file \in {NoFile, OldFile}
    /\ file_writes = 0
    /\ printed = {}
    /\ pdf_index = 1
    /\ processed_data = <<>>
    /\ tpc = "main"
    /\ CoreIdle
    /\ ImgIdle
    /\ ReportIdle

\* main, line 138: [f for f in os.listdir(PDF_DIRECTORY) if f.endswith(".pdf")]
listed_pdfs(entries) ==
    LET IsPdf(e) == endswith(e.file, ".pdf")
    IN  SelectSeq(entries, IsPdf)

\* main, lines 140-142: too few PDFs, a message and return
MainRefuse ==
    /\ tpc = "main"
    /\ refuses(listed_pdfs(listing))
    /\ pdf_files' = listed_pdfs(listing)
    /\ printed' = printed \cup {"Not enough PDFs to detect template text"}
    /\ tpc' = "refused"
    /\ UNCHANGED <<listing, text_by_pdf, phrase_count, header_footer_count,
                   detected_headers_footers, detected_template_phrases,
                   filtered_text, template_file, file_writes, pdf_index,
                   processed_data, notTplVars>>

\* main, line 144: find_common_text(pdf_files) is called
MainCall ==
    /\ tpc = "main"
    /\ ~refuses(listed_pdfs(listing))
    /\ pdf_files' = listed_pdfs(listing)
    /\ pdf_index' = 1
    /\ tpc' = "count"
    /\ UNCHANGED <<listing, text_by_pdf, phrase_count, header_footer_count,
                   detected_headers_footers, detected_template_phrases,
                   filtered_text, template_file, file_writes, printed,
                   processed_data, notTplVars>>

\* find_common_text, lines 60-83: one turn of the loop over the PDFs
CountPdf ==
    /\ tpc = "count"
    /\ pdf_index <= Len(pdf_files)
    /\ LET pages == extract_text_from_pdf(pdf_files[pdf_index].pages)
           counts == count_pages([hf |-> header_footer_count, ph |-> phrase_count],
                                 pages)
       IN  /\ text_by_pdf' =
                 Append(text_by_pdf, [file |-> pdf_files[pdf_index].file,
                                      pages |-> pages])
           /\ header_footer_count' = counts.hf
           /\ phrase_count' = counts.ph
    /\ pdf_index' = pdf_index + 1
    /\ UNCHANGED <<listing, pdf_files, detected_headers_footers,
                   detected_template_phrases, filtered_text, template_file,
                   file_writes, printed, processed_data, tpc, notTplVars>>

\* find_common_text, lines 86-95
DetectTemplate ==
    /\ tpc = "count"
    /\ pdf_index > Len(pdf_files)
    /\ detected_headers_footers' =
           detected(header_footer_count, header_footer_threshold(Len(pdf_files)))
    /\ detected_template_phrases' =
           detected(phrase_count, phrase_threshold(Len(pdf_files)))
    /\ tpc' = "filter"
    /\ UNCHANGED <<listing, pdf_files, text_by_pdf, phrase_count,
                   header_footer_count, filtered_text, template_file, file_writes,
                   printed, pdf_index, processed_data, notTplVars>>

\* find_common_text, lines 101-132: filtered_text is built and returned
FilterText ==
    /\ tpc = "filter"
    /\ filtered_text' = filter_pdfs(text_by_pdf, detected_template_phrases)
    /\ tpc' = "save"
    /\ UNCHANGED <<listing, pdf_files, text_by_pdf, phrase_count,
                   header_footer_count, detected_headers_footers,
                   detected_template_phrases, template_file, file_writes, printed,
                   pdf_index, processed_data, notTplVars>>

\* main, lines 147-148: json.dump({"template_text": common_template_text}, f)
SaveTemplate ==
    /\ tpc = "save"
    /\ template_file' = [exists |-> TRUE, template_text |-> filtered_text]
    /\ file_writes' = file_writes + 1
    /\ tpc' = "saved"
    /\ UNCHANGED <<listing, pdf_files, text_by_pdf, phrase_count,
                   header_footer_count, detected_headers_footers,
                   detected_template_phrases, filtered_text, printed, pdf_index,
                   processed_data, notTplVars>>

\* 0B-process.py is started once 0A-template.py has ended
StartProcess ==
    /\ tpc \in {"saved", "refused"}
    /\ pdf_index' = 1
    /\ tpc' = "process"
    /\ UNCHANGED <<listing, pdf_files, text_by_pdf, phrase_count,
                   header_footer_count, detected_headers_footers,
                   detected_template_phrases, filtered_text, template_file,
                   file_writes, printed, processed_data, notTplVars>>

processVars == <<listing, pdf_files, text_by_pdf, phrase_count,
                 header_footer_count, detected_headers_footers,
                 detected_template_phrases, filtered_text, template_file,
                 file_writes, printed>>

\* main of 0B-process.py on an entry that is a PDF: process_pdf, its text part
ProcessPdf ==
    /\ tpc = "process"
    /\ pdf_index <= Len(listing)
    /\ endswith(lower(listing[pdf_index].file), ".pdf")
    /\ LET template_text == load_template_text(template_file)
           extracted_text ==
               extract_text_from_pdf_0B(listing[pdf_index].pages, template_text)
       IN  processed_data' =
               Append(processed_data, [filename |-> listing[pdf_index].file,
                                       text_by_page |-> extracted_text])
    /\ pdf_index' = pdf_index + 1
    /\ UNCHANGED <<processVars, tpc, notTplVars>>

\* main of 0B-process.py on an entry that is not a PDF
SkipEntry ==
    /\ tpc = "process"
    /\ pdf_index <= Len(listing)
    /\ ~endswith(lower(listing[pdf_index].file), ".pdf")
    /\ pdf_index' = pdf_index + 1
    /\ UNCHANGED <<processVars, processed_data, tpc, notTplVars>>

\* main of 0B-process.py: the loop has ended
ProcessDone ==
    /\ tpc = "process"
    /\ pdf_index > Len(listing)
    /\ tpc' = "done"
    /\ UNCHANGED <<processVars, processed_data, pdf_index, notTplVars>>

NextTemplate ==
    \/ MainRefuse
    \/ MainCall
    \/ CountPdf
    \/ DetectTemplate
    \/ FilterText
    \/ SaveTemplate
    \/ StartProcess
    \/ ProcessPdf
    \/ SkipEntry
    \/ ProcessDone

SpecTemplate == InitTemplate /\ [][NextTemplate]_vars

-----------------------------------------------------------------------------
(* Properties of the template detector *)

\* every window of 6 consecutive words of a page, as a set
Windows6(page) ==
    LET words == split(clean_page_text(page))
    IN  {join(SubSeq(words, i, i + 5), " ") : i \in 1..(Len(words) - 5)}

\* the documents read so far that hold the phrase on some page
DocsHolding(phrase) ==
    {i \in 1..Len(text_by_pdf) :
        \E p \in 1..Len(text_by_pdf[i].pages) :
            phrase \in Windows6(text_by_pdf[i].pages[p])}

\* C11: the count kept for a 6-word phrase is a document frequency: a document
\* adds at most 1 to it, on however many of its pages the phrase stands.
C11_DocumentFrequency ==
    \A phrase \in DOMAIN phrase_count :
        phrase_count[phrase] <= Cardinality(DocsHolding(phrase))

\* C12: with N >= 2 documents a phrase is detected only if its count is at
\* least max(2, floor(0.7 * N)).
C12_ThresholdAtLeastTwo ==
    (tpc \notin {"main", "count"} /\ Len(pdf_files) >= 2) =>
        \A phrase \in detected_template_phrases :
            phrase_count[phrase] >= Max({2, (7 * Len(pdf_files)) \div 10})

\* C13: every string written under template_text was flagged by the detector:
\* it is a detected template phrase or a detected header or footer.
C13_OnlyFlaggedTextSaved ==
    file_writes > 0 =>
        \A k \in 1..Len(template_file.template_text) :
            template_file.template_text[k]
                \in detected_template_phrases \cup detected_headers_footers

\* the directory entries that hold the page
HoldersOf(page) == {i \in 1..Len(listing) : page \in Range(listing[i].pages)}

\* the page is classified as template: each of its phrases that was counted is
\* a detected template phrase
ClassifiedTemplate(page) ==
    \A phrase \in Windows6(page) \cap DOMAIN phrase_count :
        phrase \in detected_template_phrases

\* the page is left out of the text of every processed document that holds it
ExcludedEverywhere(page) ==
    \A d \in 1..Len(processed_data), i \in 1..Len(listing) :
        listing[i].file = processed_data[d].filename =>
            \A p \in 1..Len(listing[i].pages) :
                listing[i].pages[p] = page =>
                    p \notin DOMAIN processed_data[d].text_by_page

\* C14: with 10 documents, a page whose text stands in 6 or more of them is
\* classified as a template page and is left out of the comparison text of all
\* the documents.
C14_SixOfTenIsTemplate ==
    (tpc = "done" /\ Len(pdf_files) = 10 /\ Cardinality(HoldersOf(FormPage)) >= 6) =>
        ClassifiedTemplate(FormPage) /\ ExcludedEverywhere(FormPage)

\* the number of PDFs of the directory
PdfCount == Cardinality({i \in 1..Len(listing) : endswith(listing[i].file, ".pdf")})

\* C15: with fewer than 2 documents the detector refuses to run:
\* find_common_text is not called (no PDF is read, nothing is counted), a
\* diagnostic is printed, and the template file is neither created nor written.
C15_RefusesBelowTwo ==
    PdfCount < 2 =>
        /\ tpc \in {"main", "refused", "process", "done"}
        /\ text_by_pdf = <<>>
        /\ phrase_count = <<>>
        /\ file_writes = 0
        /\ template_file \in {NoFile, OldFile}
        /\ tpc # "main" => printed # {}

\* a directory with a single PDF was refused, and the earlier file is still there
C15_Witness ==
    /\ tpc = "refused"
    /\ PdfCount = 1
    /\ printed # {}
    /\ template_file = OldFile

-----------------------------------------------------------------------------
(* compute_image_similarity (0B-1-match.py and 0B-z-match.py, the same code) *)

RECURSIVE GCD(_, _)
GCD(a, b) == IF b = 0 THEN a ELSE GCD(b, a % b)

\* the number n / d, d > 0, in lowest terms
Fraction(n, d) == [num |-> n \div GCD(n, d), den |-> d \div GCD(n, d)]

\* {img["hash"] for img in images}
hashes_of(images) == {images[k].hash : k \in 1..Len(images)}

\* a slip: the shared hashes are counted twice in the total
compute_image_similarity_sum(imgs1, imgs2) ==
    IF imgs1 = <<>> \/ imgs2 = <<>> THEN Zero
    ELSE LET hashes1 == hashes_of(imgs1)
             hashes2 == hashes_of(imgs2)
         IN  Fraction(Cardinality(hashes1 \cap hashes2) * 100,
                      Cardinality(hashes1) + Cardinality(hashes2))

compute_image_similarity(imgs1, imgs2) ==
    IF imgs1 = <<>> \/ imgs2 = <<>> THEN Zero
    ELSE LET hashes1 == hashes_of(imgs1)
             hashes2 == hashes_of(imgs2)
             common_hashes == hashes1 \cap hashes2
             total_hashes == Cardinality(hashes1 \cup hashes2)
         IN  IF total_hashes > 0
             THEN Fraction(Cardinality(common_hashes) * 100, total_hashes)
             ELSE Zero

\* number of images of a generated document
MaxImages == 2

\* image records of the processed JSON files; Logo and LogoAgain hold the same
\* picture on two pages
Logo == [page |-> 1, hash |-> "aa"]
LogoAgain == [page |-> 2, hash |-> "aa"]
Chart == [page |-> 1, hash |-> "bb"]
Photo == [page |-> 3, hash |-> "cc"]

ImagePool == {Logo, LogoAgain, Chart, Photo}

ImageLists == UNION {[1..n -> ImagePool] : n \in 0..MaxImages}

RECURSIVE one_per_hash(_, _)
\* the list with the first image of every hash only
one_per_hash(images, had) ==
    IF images = <<>> THEN <<>>
    ELSE IF Head(images).hash \in had THEN one_per_hash(Tail(images), had)
         ELSE <<Head(images)>> \o one_per_hash(Tail(images), had \cup {Head(images).hash})

InitImage ==
    /\ images1 \in ImageLists
    /\ images2 \in ImageLists
    /\ sim12 = Zero
    /\ sim21 = Zero
    /\ sim_distinct = Zero
    /\ ipc = "in"
    /\ CoreIdle
    /\ TplIdle
    /\ ReportIdle

notImgVars == <<variant, awards, graph, edge_reasons, seen, stack, comp,
                comp_reasons_for_graph, outer_i, components, returned, rpc, run,
                first_run, name, norm1, norm2, npc, addr1, addr2, sim_vis,
                sim_plain, apc, tplVars, reportVars, moreVars>>

\* compare_pdfs: the call for a pair of documents
CompareImages ==
    /\ ipc = "in"
    /\ sim12' = compute_image_similarity(images1, images2)
    /\ ipc' = "one"
    /\ UNCHANGED <<images1, images2, sim21, sim_distinct, notImgVars>>

\* the call with the documents in the other order
CompareImagesSwapped ==
    /\ ipc = "one"
    /\ sim21' = compute_image_similarity(images2, images1)
    /\ ipc' = "two"
    /\ UNCHANGED <<images1, images2, sim12, sim_distinct, notImgVars>>

\* the call on the lists without repeated hashes
CompareImagesDistinct ==
    /\ ipc = "two"
    /\ sim_distinct' = compute_image_similarity(one_per_hash(images1, {}),
                                                 one_per_hash(images2, {}))
    /\ ipc' = "three"
    /\ UNCHANGED <<images1, images2, sim12, sim21, notImgVars>>

NextImage == CompareImages \/ CompareImagesSwapped \/ CompareImagesDistinct

SpecImage == InitImage /\ [][NextImage]_vars

\* the set of distinct hashes of a document, from its image list
H(images) == {h \in {"aa", "bb", "cc"} : \E k \in 1..Len(images) : images[k].hash = h}

\* C16: compute_image_similarity returns 100 * |H1 \cap H2| / |H1 \cup H2| over
\* the sets of distinct hashes, whatever the repeats and the argument order, and
\* 0 when a document has no images.
C16_JaccardPercentage ==
    ipc = "three" =>
        /\ (images1 = <<>> \/ images2 = <<>>) => sim12.num = 0
        /\ (images1 # <<>> /\ images2 # <<>>) =>
               sim12.num * Cardinality(H(images1) \cup H(images2))
                   = 100 * Cardinality(H(images1) \cap H(images2)) * sim12.den
        /\ sim21 = sim12
        /\ sim_distinct = sim12

\* a hash repeats in one document, the documents share one hash of three
C16_Witness ==
    /\ ipc = "three"
    /\ images1 = <<Logo, LogoAgain>>
    /\ images2 = <<Chart, Logo>>
    /\ sim12 = [num |-> 50, den |-> 1]

-----------------------------------------------------------------------------
(* 1A-report.py: the functions of a comparison *)

\* TEXT_SIMILARITY_THRESHOLD = 0.75, in hundredths
TEXT_SIMILARITY_THRESHOLD_PCT == 75

BATCH_SIZE == 2

\* "if len(s) > 50"
MIN_SENTENCE_LEN == 50

\* sent1[:200]
MAX_SHOWN == 200

DigitValue(c) == CHOOSE k \in 0..9 : DIGITS[k + 1] = c

RECURSIVE int(_)
\* int(s) of a string of decimal digits
int(s) ==
    IF s = "" THEN 0
    ELSE 10 * int(SubSeq(s, 1, Len(s) - 1)) + DigitValue(Char(s, Len(s)))

RECURSIVE str(_)
\* str(n), as the f-string "{p1}" formats a page number
str(n) == IF n < 10 THEN DIGITS[n + 1] ELSE str(n \div 10) \o DIGITS[(n % 10) + 1]

\* clean_text of 1A-report.py (the whitespace pattern already takes the
\* no-break space)
clean_text_1A(text) == strip(collapse_ws(lower(text)))

\* text_similarity(text1, text2) >= TEXT_SIMILARITY_THRESHOLD, with
\* ratio = 2.0 * matches / (len(a) + len(b)), and 1.0 when both are empty
text_similarity_reaches(text1, text2) ==
    IF Len(text1) + Len(text2) = 0 THEN 100 >= TEXT_SIMILARITY_THRESHOLD_PCT
    ELSE 100 * 2 * matching_size(text1, text2)
             >= TEXT_SIMILARITY_THRESHOLD_PCT * (Len(text1) + Len(text2))

\* a slip: only the pages before page 9 are left out
in_window_no_tail(page, max_page) == ~(page < 9)

\* the page is not skipped by "if page < 9 or page > max_page - 11: continue"
in_window(page, max_page) == ~(page < 9 \/ page > max_page - 11)

\* text_by_page is the list of its (key, text) items, in the order of the dict
page_numbers(text_by_page) ==
    {int(text_by_page[k][1]) : k \in 1..Len(text_by_page)}

\* [(page, s.strip()) for s in re.split(r'(?<=[.!?])\s+', clean_text(text))
\*  if len(s) > 50]: the sentences
long_sentences(text) ==
    LET Long(x) == Len(x) > MIN_SENTENCE_LEN
    IN  strip_all(SelectSeq(re_split_after(clean_text_1A(text), SENTENCE_END_0B, ""),
                            Long))

\* the items of text_by_page whose page is not skipped
pages_in_window(text_by_page) ==
    LET max_page == Max(page_numbers(text_by_page))
        Kept(item) == in_window(int(item[1]), max_page)
    IN  SelectSeq(text_by_page, Kept)

shown(sent) == SubSeq(sent, 1, Min({MAX_SHOWN, Len(sent)})) \o "..."

-----------------------------------------------------------------------------
(* The documents 1A-report.py is run on *)

Oath == "The applicant certifies that all statements are true."
OathToo == "The applicant certifies that the statements are true."
Budget == "Budget lines are copied from an earlier cost proposal."
Label == "Firm name."

\* number of documents in processed_data
MaxFiles == 3

\* number of worker processes of the pool
MaxWorkers == 2

\* how many times a run is interrupted and the program started again
MaxRestarts == 1

Image(page, hash, position) ==
    [page |-> page, hash |-> hash,
     image_file |-> "page" \o str(page) \o ".png", position |-> position]

\* pages 2, 10, 21: page 10 alone is not skipped
DocP ==
    [file |-> "p.json", has_text |-> TRUE,
     text_by_page |-> <<<<"2", Oath>>, <<"10", Oath \o "  " \o Label>>,
                        <<"21", Budget>>>>,
     images |-> <<Image(10, "aa", "Top Left"), Image(21, "aa", "Bottom Right")>>]

\* pages 9, 20: page 9 alone is not skipped
DocQ ==
    [file |-> "q.json", has_text |-> TRUE,
     text_by_page |-> <<<<"9", OathToo>>, <<"20", Budget>>>>,
     images |-> <<Image(9, "aa", "Top Left"), Image(9, "bb", "Middle Center")>>]

\* pages 12, 30: page 12 alone is not skipped; no picture of DocP
DocR ==
    [file |-> "r.json", has_text |-> TRUE,
     text_by_page |-> <<<<"12", Oath>>, <<"30", Label>>>>,
     images |-> <<Image(12, "bb", "Top Right"), Image(12, "cc", "Top Left")>>]

\* a document without text: "text_by_page": {}
DocE ==
    [file |-> "e.json", has_text |-> TRUE, text_by_page |-> <<>>,
     images |-> <<Image(1, "aa", "Top Left")>>]

\* a document without the key text_by_page
DocM == [file |-> "m.json", has_text |-> FALSE, text_by_page |-> <<>>, images |-> <<>>]

ReportPool == {DocP, DocQ, DocR, DocE, DocM}

\* the dicts load_processed_files can return: at most MaxFiles files, none twice
DataSets ==
    UNION {{q \in [1..n -> ReportPool] : \A i, j \in 1..n : i # j => q[i] # q[j]} :
           n \in 0..MaxFiles}

\* the page texts of the documents
PoolPages ==
    UNION {{d.text_by_page[k][2] : k \in 1..Len(d.text_by_page)} : d \in ReportPool}

\* long_sentences of every page text, computed once
LONG_SENTENCES == [text \in PoolPages |-> long_sentences(text)]

\* the sentences of a page
sentences_of_page(text) ==
    IF text \in PoolPages THEN LONG_SENTENCES[text] ELSE long_sentences(text)

\* the sentences of the pages
PoolSentences == UNION {Range(LONG_SENTENCES[text]) : text \in PoolPages}

\* the pairs of pool sentences whose similarity reaches the threshold,
\* computed once
SIMILAR_SENTENCES ==
    {pr \in PoolSentences \X PoolSentences : text_similarity_reaches(pr[1], pr[2])}

\* "similarity >= TEXT_SIMILARITY_THRESHOLD" for two sentences
similar_sentences(sent1, sent2) ==
    IF sent1 \in PoolSentences /\ sent2 \in PoolSentences
    THEN <<sent1, sent2>> \in SIMILAR_SENTENCES
    ELSE text_similarity_reaches(sent1, sent2)

RECURSIVE sentence_matches(_, _, _, _, _)
\* lines 59-63: the loops over sentences1 and sentences2, from pair number k on
sentence_matches(p1, sentences1, p2, sentences2, k) ==
    IF k > Len(sentences1) * Len(sentences2) THEN <<>>
    ELSE LET sent1 == sentences1[((k - 1) \div Len(sentences2)) + 1]
             sent2 == sentences2[((k - 1) % Len(sentences2)) + 1]
         IN  (IF similar_sentences(sent1, sent2)
              THEN <<<<p1, p2, shown(sent1)>>>> ELSE <<>>)
             \o sentence_matches(p1, sentences1, p2, sentences2, k + 1)

RECURSIVE page_matches(_, _, _)
\* lines 49-63: the loops over the pages that are not skipped, from pair k on
page_matches(kept1, kept2, k) ==
    IF k > Len(kept1) * Len(kept2) THEN <<>>
    ELSE LET item1 == kept1[((k - 1) \div Len(kept2)) + 1]
             item2 == kept2[((k - 1) % Len(kept2)) + 1]
         IN  sentence_matches(item1[1], sentences_of_page(item1[2]),
                              item2[1], sentences_of_page(item2[2]), 1)
             \o page_matches(kept1, kept2, k + 1)

\* extract_matching_sentences raises ValueError: max() of no page numbers, at
\* line 48, or at line 53 once a page of the first document is not skipped
extract_raises(text_by_page1, text_by_page2) ==
    \/ text_by_page1 = <<>>
    \/ text_by_page2 = <<>> /\ pages_in_window(text_by_page1) # <<>>

\* extract_matching_sentences, when it returns
extract_matching_sentences(text_by_page1, text_by_page2) ==
    IF text_by_page2 = <<>> THEN <<>>
    ELSE page_matches(pages_in_window(text_by_page1),
                      pages_in_window(text_by_page2), 1)

\* compare_images: the match, as a list of one, or no match
compare_images(image1, image2) ==
    IF image1.hash = image2.hash
    THEN <<<<image1.page, image2.page, image1.position, image2.position>>>>
    ELSE <<>>

RECURSIVE image_matches(_, _, _)
image_matches(kept1, kept2, k) ==
    IF k > Len(kept1) * Len(kept2) THEN <<>>
    ELSE compare_images(kept1[((k - 1) \div Len(kept2)) + 1],
                        kept2[((k - 1) % Len(kept2)) + 1])
         \o image_matches(kept1, kept2, k + 1)

process_image_comparison(imgs1, imgs2, max_page1, max_page2) ==
    LET Kept1(img) == in_window(img.page, max_page1)
        Kept2(img) == in_window(img.page, max_page2)
    IN  image_matches(SelectSeq(imgs1, Kept1), SelectSeq(imgs2, Kept2), 1)

\* run_image_comparison_task: the matches with the file names in front
run_image_comparison_task(args) ==
    LET found == process_image_comparison(args.images1, args.images2,
                                          args.max_page1, args.max_page2)
    IN  [k \in 1..Len(found) |->
            <<args.file1, args.file2, found[k][1], found[k][2], found[k][3],
              found[k][4]>>]

-----------------------------------------------------------------------------
(* 1A-report.py: compare_documents_in_batches *)

\* get_processed_rows_count: the lines of the file but the header
get_processed_rows_count(file) == IF ~file.exists THEN 0 ELSE (Len(file.rows) + 1) - 1

new_entry(f) == [file |-> f, matches |-> <<>>, text_match |-> FALSE, image_match |-> FALSE]

\* summary_data[f]: the entry is made when the key is first read
touch(sd, f) ==
    IF \E k \in 1..Len(sd) : sd[k].file = f THEN sd ELSE Append(sd, new_entry(f))

set_text_match(sd, f) ==
    LET t == touch(sd, f)
    IN  [k \in 1..Len(t) |-> IF t[k].file = f THEN [t[k] EXCEPT !.text_match = TRUE]
                             ELSE t[k]]

set_image_match(sd, f) ==
    LET t == touch(sd, f)
    IN  [k \in 1..Len(t) |-> IF t[k].file = f THEN [t[k] EXCEPT !.image_match = TRUE]
                             ELSE t[k]]

add_match(sd, f, other) ==
    LET t == touch(sd, f)
    IN  [k \in 1..Len(t) |->
            IF t[k].file = f THEN [t[k] EXCEPT !.matches = Append(@, other)]
            ELSE t[k]]

\* line 177: the rows of the text matches of a pair
text_rows(file1, file2, matching_sentences) ==
    [k \in 1..Len(matching_sentences) |->
        <<file1, file2, "Text Match", "Page " \o matching_sentences[k][1],
          "Page " \o matching_sentences[k][2], matching_sentences[k][3], "">>]

\* line 186: the rows of one result set
image_rows(result_set) ==
    [k \in 1..Len(result_set) |->
        <<result_set[k][1], result_set[k][2], "Image Match",
          "Page " \o str(result_set[k][3]), "Page " \o str(result_set[k][4]),
          result_set[k][5], result_set[k][6]>>]

max_page_or_0(text_by_page) ==
    IF text_by_page # <<>> THEN Max(page_numbers(text_by_page)) ELSE 0

\* lines 142-177 for one file2: acc holds what the loop changes
compare_pair(acc, d, doc1, doc2) ==
    LET file_pair == {doc1.file, doc2.file}
    IN  IF acc.raised \/ doc1.file = doc2.file \/ file_pair \in acc.pairs THEN acc
        ELSE IF ~doc2.has_text
        THEN [acc EXCEPT !.pairs = @ \cup {file_pair},
                         !.reported = @ \cup {doc2.file}]
        ELSE IF extract_raises(doc1.text_by_page, doc2.text_by_page)
        THEN [acc EXCEPT !.pairs = @ \cup {file_pair},
                         !.compared = @ \cup {<<doc1.file, doc2.file>>},
                         !.raised = TRUE]
        ELSE LET matching_sentences ==
                     extract_matching_sentences(doc1.text_by_page, doc2.text_by_page)
                 both_images == doc1.images # <<>> /\ doc2.images # <<>>
                 task == [file1 |-> doc1.file, file2 |-> doc2.file,
                          images1 |-> doc1.images, images2 |-> doc2.images,
                          max_page1 |-> max_page_or_0(doc1.text_by_page),
                          max_page2 |-> max_page_or_0(doc2.text_by_page)]
                 sd1 == IF matching_sentences # <<>>
                        THEN set_text_match(set_text_match(acc.summary, doc1.file),
                                            doc2.file)
                        ELSE acc.summary
                 sd2 == IF both_images
                        THEN set_image_match(set_image_match(sd1, doc1.file), doc2.file)
                        ELSE sd1
                 sd3 == IF matching_sentences # <<>>
                        THEN add_match(add_match(sd2, doc1.file, doc2.file),
                                       doc2.file, doc1.file)
                        ELSE sd2
             IN  [acc EXCEPT
                     !.pairs = @ \cup {file_pair},
                     !.compared = @ \cup {<<doc1.file, doc2.file>>},
                     !.tasks = IF both_images THEN Append(@, task) ELSE @,
                     !.summary = sd3,
                     !.matches = @ \o text_rows(doc1.file, doc2.file,
                                                matching_sentences)]

RECURSIVE compare_with_all(_, _, _, _)
\* "for file2 in files", from file number j on
compare_with_all(acc, d, doc1, j) ==
    IF j > Len(d) THEN acc
    ELSE CHOOSE last \in {compare_with_all(next, d, doc1, j + 1) :
                           next \in {compare_pair(acc, d, doc1, d[j])}} : TRUE

\* lines 204-221: a match as a row of the CSV file
csv_row(match) ==
    IF match[3] = "Text Match"
    THEN <<match[3], match[1], match[2], match[4], match[5], "", "", match[6]>>
    ELSE <<match[3], match[1], match[2], match[4], match[5], match[6], match[7], "">>

\* save_matches_to_csv: the file is written anew
save_matches_to_csv(ms) ==
    [exists |-> TRUE, rows |-> [k \in 1..Len(ms) |-> csv_row(ms[k])]]

RECURSIVE summary_rows(_, _, _, _)
\* save_summary_to_csv: entry e, match number k, with the pairs already written
summary_rows(sd, e, k, seen_pairs) ==
    IF e > Len(sd) THEN <<>>
    ELSE IF k > Len(sd[e].matches) THEN summary_rows(sd, e + 1, 1, seen_pairs)
    ELSE LET pair == {sd[e].file, sd[e].matches[k]}
         IN  IF pair \in seen_pairs THEN summary_rows(sd, e, k + 1, seen_pairs)
             ELSE <<<<sd[e].file, sd[e].matches[k], sd[e].text_match,
                      sd[e].image_match, sd[e].text_match /\ sd[e].image_match>>>>
                  \o summary_rows(sd, e, k + 1, seen_pairs \cup {pair})

save_summary_to_csv(sd) == [exists |-> TRUE, rows |-> summary_rows(sd, 1, 1, {})]

\* a slip: the results are taken as the tasks complete
gather_as_completed(res, done_order) ==
    [k \in 1..Len(done_order) |-> res[done_order[k]].rows]

\* list(executor.map(...)): the results in the order of the tasks
gather(res, done_order) == [t \in 1..Len(res) |-> res[t].rows]

RECURSIVE rows_of_results(_)
\* lines 184-186
rows_of_results(result_sets) ==
    IF result_sets = <<>> THEN <<>>
    ELSE image_rows(Head(result_sets)) \o rows_of_results(Tail(result_sets))

NotDone == [done |-> FALSE, rows |-> <<>>]

InitReport ==
    /\ data \in DataSets
    /\ matches = <<>>
    /\ summary_data = <<>>
    /\ processed_pairs = {}
    /\ processed_rows = 0
    /\ batch_i = 0
    /\ current_batch = 1
    /\ batch_files = <<>>
    /\ file1_k = 1
    /\ image_comparison_tasks = <<>>
    /\ results = <<>>
    /\ running = <<>>
    /\ next_task = 1
    /\ finished = <<>>
    /\ num_cpus \in 1..MaxWorkers
    /\ matches_file = NoCsv
    /\ summary_file = NoCsv
    /\ compared = {}
    /\ reported = {}
    /\ restarts = 0
    /\ cpc = "start"
    /\ CoreIdle
    /\ TplIdle
    /\ ImgIdle

notReportVars == <<variant, awards, graph, edge_reasons, seen, stack, comp,
                   comp_reasons_for_graph, outer_i, components, returned, rpc,
                   run, first_run, name, norm1, norm2, npc, addr1, addr2,
                   sim_vis, sim_plain, apc, tplVars, imgVars, moreVars>>

\* lines 114-125: the start of compare_documents_in_batches
EnterCompare ==
    /\ cpc = "start"
    /\ processed_rows' = get_processed_rows_count(matches_file)
    /\ batch_i' = get_processed_rows_count(matches_file)
    /\ matches' = <<>>
    /\ summary_data' = <<>>
    /\ processed_pairs' = {}
    /\ current_batch' = 1
    /\ cpc' = "batch"
    /\ UNCHANGED <<data, batch_files, file1_k, image_comparison_tasks, poolVars,
                   num_cpus, matches_file, summary_file, compared, reported,
                   restarts, notReportVars>>

\* lines 128-132: a batch begins
BeginBatch ==
    /\ cpc = "batch"
    /\ batch_i < Len(data)
    /\ batch_files' = SubSeq(data, batch_i + 1, Min({batch_i + BATCH_SIZE, Len(data)}))
    /\ image_comparison_tasks' = <<>>
    /\ file1_k' = 1
    /\ cpc' = "files"
    /\ UNCHANGED <<data, matches, summary_data, processed_pairs, processed_rows,
                   batch_i, current_batch, poolVars, num_cpus, matches_file,
                   summary_file, compared, reported, restarts, notReportVars>>

\* what one turn of "for file1 in batch_files" leaves
after_file1(doc1) ==
    compare_with_all([pairs |-> processed_pairs, matches |-> matches,
                      summary |-> summary_data, tasks |-> image_comparison_tasks,
                      compared |-> compared, reported |-> reported,
                      raised |-> FALSE],
                     data, doc1, 1)

\* lines 133-136: file1 has no key text_by_page
SkipFile1 ==
    /\ cpc = "files"
    /\ file1_k <= Len(batch_files)
    /\ ~batch_files[file1_k].has_text
    /\ reported' = reported \cup {batch_files[file1_k].file}
    /\ file1_k' = file1_k + 1
    /\ UNCHANGED <<data, matches, summary_data, processed_pairs, processed_rows,
                   batch_i, current_batch, batch_files, image_comparison_tasks,
                   poolVars, num_cpus, matches_file, summary_file, compared,
                   restarts, cpc, notReportVars>>

\* lines 138-177: file1 is compared with every other file
CompareFile1 ==
    /\ cpc = "files"
    /\ file1_k <= Len(batch_files)
    /\ batch_files[file1_k].has_text
    /\ \E acc \in {after_file1(batch_files[file1_k])} :
           /\ ~acc.raised
           /\ processed_pairs' = acc.pairs
           /\ matches' = acc.matches
           /\ summary_data' = acc.summary
           /\ image_comparison_tasks' = acc.tasks
           /\ compared' = acc.compared
           /\ reported' = acc.reported
    /\ file1_k' = file1_k + 1
    /\ UNCHANGED <<data, processed_rows, batch_i, current_batch, batch_files,
                   poolVars, num_cpus, matches_file, summary_file, restarts, cpc,
                   notReportVars>>

\* lines 138-160: extract_matching_sentences raises ValueError, which nothing
\* catches: the program ends, the files stay as the last batch left them
AbortOnValueError ==
    /\ cpc = "files"
    /\ file1_k <= Len(batch_files)
    /\ batch_files[file1_k].has_text
    /\ \E acc \in {after_file1(batch_files[file1_k])} :
           /\ acc.raised
           /\ compared' = acc.compared
           /\ reported' = acc.reported
    /\ cpc' = "aborted"
    /\ UNCHANGED <<data, matches, summary_data, processed_pairs, processed_rows,
                   batch_i, current_batch, batch_files, file1_k,
                   image_comparison_tasks, poolVars, num_cpus, matches_file,
                   summary_file, restarts, notReportVars>>

\* lines 180-182: the tasks are handed to a ProcessPoolExecutor
StartPool ==
    /\ cpc = "files"
    /\ file1_k > Len(batch_files)
    /\ image_comparison_tasks # <<>>
    /\ results' = [t \in 1..Len(image_comparison_tasks) |-> NotDone]
    /\ running' = [w \in 1..num_cpus |-> 0]
    /\ next_task' = 1
    /\ finished' = <<>>
    /\ cpc' = "pool"
    /\ UNCHANGED <<data, matches, summary_data, processed_pairs, processed_rows,
                   batch_i, current_batch, batch_files, file1_k,
                   image_comparison_tasks, num_cpus, matches_file, summary_file,
                   compared, reported, restarts, notReportVars>>

\* a worker process takes the next task of the queue
WorkerTake(w) ==
    /\ cpc = "pool"
    /\ running[w] = 0
    /\ next_task <= Len(image_comparison_tasks)
    /\ running' = [running EXCEPT ![w] = next_task]
    /\ next_task' = next_task + 1
    /\ UNCHANGED <<data, matches, summary_data, processed_pairs, processed_rows,
                   batch_i, current_batch, batch_files, file1_k,
                   image_comparison_tasks, results, finished, num_cpus,
                   matches_file, summary_file, compared, reported, restarts, cpc,
                   notReportVars>>

\* a worker process returns the result of its task
WorkerReturn(w) ==
    /\ cpc = "pool"
    /\ running[w] # 0
    /\ results' = [results EXCEPT ![running[w]] =
                      [done |-> TRUE,
                       rows |-> run_image_comparison_task(
                                    image_comparison_tasks[running[w]])]]
    /\ finished' = Append(finished, running[w])
    /\ running' = [running EXCEPT ![w] = 0]
    /\ UNCHANGED <<data, matches, summary_data, processed_pairs, processed_rows,
                   batch_i, current_batch, batch_files, file1_k,
                   image_comparison_tasks, next_task, num_cpus, matches_file,
                   summary_file, compared, reported, restarts, cpc,
                   notReportVars>>

\* lines 182-186: every task has returned, the rows are added
CollectResults ==
    /\ cpc = "pool"
    /\ Len(finished) = Len(image_comparison_tasks)
    /\ matches' = matches \o rows_of_results(gather(results, finished))
    /\ cpc' = "save"
    /\ UNCHANGED <<data, summary_data, processed_pairs, processed_rows, batch_i,
                   current_batch, batch_files, file1_k, image_comparison_tasks,
                   poolVars, num_cpus, matches_file, summary_file, compared,
                   reported, restarts, notReportVars>>

\* line 180: the batch has no image task
NoImageTasks ==
    /\ cpc = "files"
    /\ file1_k > Len(batch_files)
    /\ image_comparison_tasks = <<>>
    /\ cpc' = "save"
    /\ UNCHANGED <<data, matches, summary_data, processed_pairs, processed_rows,
                   batch_i, current_batch, batch_files, file1_k,
                   image_comparison_tasks, poolVars, num_cpus, matches_file,
                   summary_file, compared, reported, restarts, notReportVars>>

\* lines 189-193: the progress is saved, the loop goes on
SaveBatch ==
    /\ cpc = "save"
    /\ matches_file' = save_matches_to_csv(matches)
    /\ summary_file' = save_summary_to_csv(summary_data)
    /\ current_batch' = current_batch + 1
    /\ batch_i' = batch_i + BATCH_SIZE
    /\ cpc' = "batch"
    /\ UNCHANGED <<data, matches, summary_data, processed_pairs, processed_rows,
                   batch_files, file1_k, image_comparison_tasks, poolVars,
                   num_cpus, compared, reported, restarts, notReportVars>>

\* line 195: the loop has ended
FinishCompare ==
    /\ cpc = "batch"
    /\ batch_i >= Len(data)
    /\ cpc' = "done"
    /\ UNCHANGED <<data, matches, summary_data, processed_pairs, processed_rows,
                   batch_i, current_batch, batch_files, file1_k,
                   image_comparison_tasks, poolVars, num_cpus, matches_file,
                   summary_file, compared, reported, restarts, notReportVars>>

\* the run is interrupted after a batch and the program is started again: what
\* is in memory is lost, the files are kept
InterruptAndRestart ==
    /\ cpc = "batch"
    /\ current_batch > 1
    /\ restarts < MaxRestarts
    /\ restarts' = restarts + 1
    /\ matches' = <<>>
    /\ summary_data' = <<>>
    /\ processed_pairs' = {}
    /\ processed_rows' = 0
    /\ batch_i' = 0
    /\ current_batch' = 1
    /\ batch_files' = <<>>
    /\ file1_k' = 1
    /\ image_comparison_tasks' = <<>>
    /\ results' = <<>>
    /\ running' = <<>>
    /\ next_task' = 1
    /\ finished' = <<>>
    /\ cpc' = "start"
    /\ UNCHANGED <<data, num_cpus, matches_file, summary_file, compared, reported,
                   notReportVars>>

NextReport ==
    \/ EnterCompare
    \/ BeginBatch
    \/ SkipFile1
    \/ CompareFile1
    \/ AbortOnValueError
    \/ StartPool
    \/ \E w \in 1..num_cpus : WorkerTake(w)
    \/ \E w \in 1..num_cpus : WorkerReturn(w)
    \/ CollectResults
    \/ NoImageTasks
    \/ SaveBatch
    \/ FinishCompare
    \/ InterruptAndRestart

SpecReport == InitReport /\ [][NextReport]_vars

-----------------------------------------------------------------------------
(* Properties of the batch comparison *)

\* the documents that hold page text
WithText == {i \in 1..Len(data) : data[i].has_text /\ data[i].text_by_page # <<>>}

\* the pair was handed to extract_matching_sentences, in one order or the other
Compared(i, j) ==
    <<data[i].file, data[j].file>> \in compared
        \/ <<data[j].file, data[i].file>> \in compared

\* C17: a document without page-text data (no key text_by_page, or the key
\* with no pages) never aborts the run: the condition is reported, and at the
\* end of a run every pair of the documents that hold text has been compared.
C17_MissingTextNeverAborts ==
    /\ cpc # "aborted"
    /\ (cpc = "done" /\ restarts = 0) =>
           /\ \A i \in 1..Len(data) : i \notin WithText => data[i].file \in reported
           /\ \A i, j \in WithText : i # j => Compared(i, j)

\* the rows a comparison of the two documents yields, in either order
PairHasMatch(i, j) ==
    \/ extract_matching_sentences(data[i].text_by_page, data[j].text_by_page) # <<>>
    \/ extract_matching_sentences(data[j].text_by_page, data[i].text_by_page) # <<>>
    \/ /\ data[i].images # <<>> /\ data[j].images # <<>>
       /\ process_image_comparison(data[i].images, data[j].images,
                                   Max(page_numbers(data[i].text_by_page)),
                                   Max(page_numbers(data[j].text_by_page))) # <<>>

\* the matches file holds a row of the pair
FileHasRowOf(i, j) ==
    \E k \in 1..Len(matches_file.rows) :
        {matches_file.rows[k][2], matches_file.rows[k][3]}
            = {data[i].file, data[j].file}

\* C18: when a run was interrupted after a batch and the program started
\* again, at the end of the restarted run the matches file holds the match rows
\* of every pair of documents and no pair has been left uncompared.
C18_ResumeLosesNothing ==
    (cpc = "done" /\ restarts > 0) =>
        \A i, j \in WithText :
            i < j => /\ Compared(i, j)
                     /\ PairHasMatch(i, j) => FileHasRowOf(i, j)

\* the pairs of files of the tasks of the batch
TaskPairs ==
    {<<image_comparison_tasks[t].file1, image_comparison_tasks[t].file2>> :
        t \in 1..Len(image_comparison_tasks)}

\* the image-match rows of the tasks of the batch that matches holds, in order
BatchImageRows ==
    LET OfBatch(row) == row[3] = "Image Match" /\ <<row[1], row[2]>> \in TaskPairs
    IN  SelectSeq(matches, OfBatch)

RECURSIVE RowsInSubmissionOrder(_)
\* the rows of the matches of every task from task t on, task after task
RowsInSubmissionOrder(t) ==
    IF t > Len(image_comparison_tasks) THEN <<>>
    ELSE image_rows(run_image_comparison_task(image_comparison_tasks[t]))
         \o RowsInSubmissionOrder(t + 1)

\* C19: in every batch the image-match rows added are the matches of each
\* submitted task, once each and in submission order, whichever worker ran a
\* task and in whatever order the tasks completed; a task's result is the
\* result of its own arguments.
C19_PoolResultsInSubmissionOrder ==
    /\ cpc = "pool" =>
           /\ BatchImageRows = <<>>
           /\ \A t \in 1..Len(results) :
                  results[t].rows =
                      IF results[t].done
                      THEN run_image_comparison_task(image_comparison_tasks[t])
                      ELSE <<>>
    /\ cpc = "save" => BatchImageRows = RowsInSubmissionOrder(1)

\* two workers, the second task completed before the first, and both tasks
\* found matches
C19_Witness ==
    /\ cpc = "save"
    /\ Len(finished) >= 2
    /\ finished[1] = 2
    /\ \A t \in 1..2 : results[t].rows # <<>>
    /\ results[1].rows # results[2].rows

\* the page number of "Page <n>"
PageOf(cell) == int(drop(cell, Len("Page ")))

\* the highest page number of the text of the file
HighestPage(file) ==
    Max(UNION {page_numbers(data[i].text_by_page) : i \in {k \in 1..Len(data) : data[k].file = file}})

\* C20 as claimed: every text or image match refers, in each document, to a
\* page within the first 9 or the last 11 pages of the document.
C20_FirstNineOrLastEleven ==
    \A k \in 1..Len(matches) :
        /\ PageOf(matches[k][4]) <= 9
               \/ PageOf(matches[k][4]) > HighestPage(matches[k][1]) - 11
        /\ PageOf(matches[k][5]) <= 9
               \/ PageOf(matches[k][5]) > HighestPage(matches[k][2]) - 11

\* C20 as amended: every text or image match refers, in each document, to a
\* page from page 9 up to 11 pages before the highest page that holds text;
\* pages 1 to 8 and the pages after that never produce a match.
C20_MiddlePagesOnly ==
    \A k \in 1..Len(matches) :
        /\ PageOf(matches[k][4]) >= 9
        /\ PageOf(matches[k][4]) <= HighestPage(matches[k][1]) - 11
        /\ PageOf(matches[k][5]) >= 9
        /\ PageOf(matches[k][5]) <= HighestPage(matches[k][2]) - 11

\* a text match and an image match were emitted between page 10 of a document
\* whose pages 2 and 21 hold the same text and picture, and another document
C20_Witness ==
    /\ cpc = "done"
    /\ \E k \in 1..Len(matches) :
           matches[k][1] = "p.json" /\ matches[k][3] = "Text Match"
               /\ matches[k][4] = "Page 10"
    /\ \E k \in 1..Len(matches) :
           matches[k][1] = "p.json" /\ matches[k][3] = "Image Match"
               /\ matches[k][4] = "Page 10"

-----------------------------------------------------------------------------
(* The phrase window of the template detector *)

\* C22: the phrase window covers the whole page: every window of 6 consecutive
\* words of a page that has been counted, the last one included, is a counted
\* phrase, and these windows are the 6-grams get_ngrams yields for the page.
C22_WindowCoversPage ==
    \A i \in 1..Len(text_by_pdf) :
        \A p \in 1..Len(text_by_pdf[i].pages) :
            /\ Windows6(text_by_pdf[i].pages[p])
                   = get_ngrams(clean_page_text(text_by_pdf[i].pages[p]), 6)
            /\ get_ngrams(clean_page_text(text_by_pdf[i].pages[p]), 6)
                   \subseteq DOMAIN phrase_count

-----------------------------------------------------------------------------
(* Properties of the summary and of a fresh run *)

\* the hashes of the images of a file of data
HashesOf(file) ==
    UNION {{data[i].images[k].hash : k \in 1..Len(data[i].images)} :
              i \in {j \in 1..Len(data) : data[j].file = file}}

\* the files the file was compared with, in one order or the other
ComparedWith(file) ==
    {c[2] : c \in {x \in compared : x[1] = file}}
        \cup {c[1] : c \in {x \in compared : x[2] = file}}

\* C28: a file's image_match flag in the summary is True only if one of its
\* images has the hash of an image of a document it was compared with.
C28_ImageFlagMeansSharedHash ==
    \A e \in 1..Len(summary_data) :
        summary_data[e].image_match =>
            \E other \in ComparedWith(summary_data[e].file) :
                HashesOf(summary_data[e].file) \cap HashesOf(other) # {}

\* the documents that hold the key text_by_page
WithKey == {i \in 1..Len(data) : data[i].has_text}

\* C29: a fresh run ends with its last batch complete, and then every pair of
\* documents that hold text_by_page has been compared exactly once: in one
\* order and not in the other.
C29_FreshRunEachPairOnce ==
    restarts = 0 =>
        /\ cpc # "aborted"
        /\ \A i, j \in WithKey :
               i # j => ~(<<data[i].file, data[j].file>> \in compared
                              /\ <<data[j].file, data[i].file>> \in compared)
        /\ cpc = "done" => \A i, j \in WithKey : i # j => Compared(i, j)

-----------------------------------------------------------------------------
(* The distinct-firm-name filter of the resolver *)

\* the normalized firm names of a set of records
NamesOf(S) == {Norm(x) : x \in S}

\* C30: in both resolvers every connected component of the graph that has 2 or
\* more records holds at least 2 distinct normalized firm names, so that the
\* filter on firm names passes every walked component of 2 or more records and
\* at return only single records are left out of the groups.
C30_FilterDropsOnlySingles ==
    /\ \A i \in 1..N :
           Cardinality(Closure({i})) >= 2 => Cardinality(NamesOf(Closure({i}))) >= 2
    /\ (rpc = "dfs" /\ stack = <<>> /\ Len(comp) >= 2) =>
           Cardinality(NamesOf(Range(comp))) >= 2
    /\ \A c \in 1..Len(components) :
           Len(components[c]) >= 2 => Cardinality(NamesOf(Range(components[c]))) >= 2
    /\ rpc = "done" =>
           \A i \in 1..N :
               Cardinality(Closure({i})) >= 2 => \E k \in 1..Len(returned) : i \in Group(k)

\* a returned group of three records, two of them of one firm
C30_Witness ==
    /\ rpc = "done"
    /\ \E k \in 1..Len(returned) :
          /\ Cardinality(Group(k)) = 3
          /\ Cardinality(NamesOf(Group(k))) = 2

-----------------------------------------------------------------------------
(* The two resolvers on one list *)

\* the caller hands the same, unmodified list to the resolver of the other file
OtherVariant ==
    /\ rpc = "done" /\ run = 1
    /\ first_run' = [returned |-> returned, groups |-> Groups, graph |-> graph,
                      edge_reasons |-> edge_reasons]
    /\ run' = 2
    /\ variant' = IF variant = "vis" THEN "grp" ELSE "vis"
    /\ graph' = [i \in 1..Len(awards) |-> {}]
    /\ edge_reasons' = [p \in Pairs(Len(awards)) |-> {}]
    /\ seen' = {}
    /\ stack' = <<>>
    /\ comp' = <<>>
    /\ comp_reasons_for_graph' = [p \in Pairs(Len(awards)) |-> {}]
    /\ outer_i' = 1
    /\ components' = <<>>
    /\ returned' = <<>>
    /\ rpc' = "url"
    /\ UNCHANGED <<docVars, awards, normVars, addrVars>>

NextBothVariants == Next \/ OtherVariant

\* find_duplicate_components of one file, then of the other, on the same list
SpecBothVariants == Init /\ [][NextBothVariants]_vars

\* similar_address of sl-api-vis.py and of y-api.py / sl-api.py give the same
\* answer on every pair of addresses the pairwise loop compares
SameAddressRelation ==
    \A p \in Pairs(N) :
        (is_value(Val(p[1], "address1")) /\ is_value(Val(p[2], "address1"))) =>
            (similar_address_vis(Val(p[1], "address1"), Val(p[2], "address1"))
                <=> similar_address(Val(p[1], "address1"), Val(p[2], "address1")))

\* C26: when the address-similarity relation is the same for both, the
\* group-based resolver and the edge-tagging resolver return the same set of
\* groups, each group taken as a set of indices.
C26_VariantsAgreeOnGroups ==
    (rpc = "done" /\ run = 2 /\ SameAddressRelation) =>
        /\ Groups = first_run.groups
        /\ Len(returned) = Len(first_run.returned)

\* both resolvers returned a group although their graphs differ: the
\* group-based one linked two records of one firm
C26_Witness ==
    /\ rpc = "done" /\ run = 2 /\ SameAddressRelation
    /\ Groups # {}
    /\ Groups = first_run.groups
    /\ graph # first_run.graph
    /\ \E p \in Pairs(N) : is_value(Val(p[1], "address1")) /\ is_value(Val(p[2], "address1"))

-----------------------------------------------------------------------------
(* display_results (sl-api-vis.py, y-api.py): the totals of the groups *)

\* a None entry of the list
None == [is_none |-> TRUE]

\* the values of the key award_amount: a JSON number, a JSON string, null, or
\* no such key; the digits of a number are kept as text
Number(t) == [kind |-> "number", text |-> t]
Str(t) == [kind |-> "str", text |-> t]
NoneValue == [kind |-> "none", text |-> ""]
MissingKey == [kind |-> "missing", text |-> ""]

\* the record r with its award_amount
WithAmount(r, amount) ==
    [firm |-> r.firm, company_url |-> r.company_url, poc_phone |-> r.poc_phone,
     pi_phone |-> r.pi_phone, address1 |-> r.address1, award_amount |-> amount]

\* the lists display_results is called with
AmountPool ==
    {WithAmount(Acme1, Number("100")), WithAmount(Beta1, Str(" 250")),
     WithAmount(Zenith, Str("n/a")), WithAmount(Acme2, Str("")),
     WithAmount(Beta2, MissingKey), WithAmount(Beta1, NoneValue), None}

AmountLists == UNION {[1..k -> AmountPool] : k \in 0..MaxRecords}

\* "[award for award in awards if award is not None]"
not_none(a) == SelectSeq(a, LAMBDA award : award # None)

\* award.get("award_amount", 0)
get_award_amount(award) ==
    IF award.award_amount = MissingKey THEN Number("0") ELSE award.award_amount

\* float(x): a number is converted; a string is stripped and parsed, and one
\* that is not a literal (here: a non-empty run of digits) raises ValueError;
\* None raises TypeError
float(x) ==
    CASE x.kind = "number" -> [raised |-> "", value |-> int(x.text)]
      [] x.kind = "str" ->
            IF strip(x.text) # ""
               /\ \A k \in 1..Len(strip(x.text)) : IsDigit(Char(strip(x.text), k))
            THEN [raised |-> "", value |-> int(strip(x.text))]
            ELSE [raised |-> "ValueError", value |-> 0]
      [] x.kind = "none" -> [raised |-> "TypeError", value |-> 0]

\* "except ValueError:" catches nothing else
caught_amount(x) == IF float(x).raised = "ValueError" THEN "" ELSE float(x).raised

RECURSIVE sum_group(_, _)
\* the loop "for award in comp_rows" that builds group_total, up to the first
\* exception that leaves it: award.get on a None entry raises AttributeError
sum_group(rows, group_total) ==
    IF rows = <<>> THEN [raised |-> "", total |-> group_total]
    ELSE IF Head(rows) = None THEN [raised |-> "AttributeError", total |-> group_total]
    ELSE IF caught_amount(get_award_amount(Head(rows))) # ""
         THEN [raised |-> caught_amount(get_award_amount(Head(rows))),
               total |-> group_total]
    ELSE CHOOSE r \in {sum_group(Tail(rows), t) :
                        t \in {group_total + float(get_award_amount(Head(rows))).value}} :
             TRUE

\* y-api.py builds the title of the group before the total:
\* normalize_firm_name(row["firm"]) raises TypeError on a None entry
title_raises(rows) ==
    IF variant = "grp" /\ \E k \in 1..Len(rows) : rows[k] = None
    THEN "TypeError" ELSE ""

\* one pass of the loop over the groups: comp_rows and its total
group_of(k) ==
    LET rows == [m \in 1..Len(group_indices(returned[k])) |->
                    caller_awards[group_indices(returned[k])[m]]]
    IN  [rows |-> rows,
         raised |-> IF title_raises(rows) # "" THEN title_raises(rows)
                    ELSE sum_group(rows, 0).raised,
         total |-> sum_group(rows, 0).total]

\* display_results(raw): find_duplicate_components is entered with the list
\* the caller passed
InitDisplay ==
    /\ \E v \in {"vis", "grp"}, raw \in AmountLists :
          /\ Entry(v, not_none(raw), 1, <<>>)
          /\ caller_awards = raw
    /\ comp_k = 1
    /\ comp_rows = <<>>
    /\ group_totals = <<>>
    /\ total_duplicates_amount = 0
    /\ raised = ""
    /\ dpc = "resolve"
    /\ NormIdle
    /\ AddrIdle
    /\ TplIdle
    /\ ImgIdle
    /\ ReportIdle
    /\ LatestIdle
    /\ ExtractIdle
    /\ AppIdle

notDispVars == <<variant, awards, graph, edge_reasons, seen, stack, comp,
                 comp_reasons_for_graph, outer_i, components, returned, rpc, run,
                 first_run, name, norm1, norm2, npc, addr1, addr2, sim_vis,
                 sim_plain, apc, tplVars, imgVars, reportVars, latestVars,
                 extractVars, appVars>>

\* "if not components_data: ... return"
NothingFound ==
    /\ dpc = "resolve" /\ rpc = "done" /\ returned = <<>>
    /\ dpc' = "nothing"
    /\ UNCHANGED <<notDispVars, caller_awards, comp_k, comp_rows, group_totals,
                   total_duplicates_amount, raised>>

\* one group is summed
SumGroup ==
    /\ dpc \in {"resolve", "sum"} /\ rpc = "done"
    /\ comp_k <= Len(returned)
    /\ \E g \in {group_of(comp_k)} :
          /\ g.raised = ""
          /\ comp_rows' = Append(comp_rows, g.rows)
          /\ group_totals' = Append(group_totals, g.total)
          /\ total_duplicates_amount' = total_duplicates_amount + g.total
    /\ comp_k' = comp_k + 1
    /\ dpc' = "sum"
    /\ UNCHANGED <<notDispVars, caller_awards, raised>>

\* an exception leaves the loop, and display_results
RaiseInGroup ==
    /\ dpc \in {"resolve", "sum"} /\ rpc = "done"
    /\ comp_k <= Len(returned)
    /\ \E g \in {group_of(comp_k)} :
          /\ g.raised # ""
          /\ raised' = g.raised
    /\ dpc' = "raised"
    /\ UNCHANGED <<notDispVars, caller_awards, comp_k, comp_rows, group_totals,
                   total_duplicates_amount>>

\* the totals are displayed
ShowTotals ==
    /\ dpc = "sum" /\ comp_k > Len(returned)
    /\ dpc' = "shown"
    /\ UNCHANGED <<notDispVars, caller_awards, comp_k, comp_rows, group_totals,
                   total_duplicates_amount, raised>>

NextDisplay == Next \/ NothingFound \/ SumGroup \/ RaiseInGroup \/ ShowTotals

\* one call of display_results
SpecDisplay == InitDisplay /\ [][NextDisplay]_vars

-----------------------------------------------------------------------------
(* Properties of display_results *)

\* what a record is worth in a total when an amount that is not a number
\* counts 0
AmountOrZero(award) ==
    IF float(get_award_amount(award)).raised = ""
    THEN float(get_award_amount(award)).value ELSE 0

RECURSIVE SumOrZero(_)
SumOrZero(rows) ==
    IF rows = <<>> THEN 0 ELSE AmountOrZero(Head(rows)) + SumOrZero(Tail(rows))

RECURSIVE SeqSum(_)
SeqSum(q) == IF q = <<>> THEN 0 ELSE Head(q) + SeqSum(Tail(q))

NoNoneEntry == \A k \in 1..Len(caller_awards) : caller_awards[k] # None

\* C21: on a list of records, an award_amount that is not a number (a string
\* that is no number, an empty string, no key, None) counts 0 in the total of
\* its group and in the overall total, and no exception leaves the aggregation
C21_BadAmountCountsZero ==
    NoNoneEntry =>
        /\ dpc # "raised"
        /\ \A k \in 1..Len(group_totals) : group_totals[k] = SumOrZero(comp_rows[k])
        /\ total_duplicates_amount = SeqSum(group_totals)

\* C27: every member index of a returned group designates in the list
\* display_results indexes the record the resolver evaluated at that index,
\* whatever None entries the list holds, and comp_rows holds these records
C27_IndexDesignatesEvaluatedRecord ==
    rpc = "done" =>
        /\ \A k \in 1..Len(returned) :
              \A m \in 1..Len(group_indices(returned[k])) :
                 caller_awards[group_indices(returned[k])[m]]
                    = awards[group_indices(returned[k])[m]]
        /\ \A k \in 1..Len(comp_rows) :
              comp_rows[k] = [m \in 1..Len(group_indices(returned[k])) |->
                                 awards[group_indices(returned[k])[m]]]

-----------------------------------------------------------------------------
(* find_latest_pdf_comparison (2-report-info.py, 3-image-report.py) and
   find_latest_file (4-report-final.py) *)

\* number of entries of the directory
MaxListing == 3

\* the names a directory holds
ListingPool ==
    {"pdf_comparison_20250101_0900.csv", "pdf_comparison_20250101_1700.csv",
     "pdf_comparison_20250102_0900.csv", "pdf_comparison_20250102_1700.csv",
     "image_matches_20250102_1200.csv", "pdf_comparison_20250103_2300.csv.bak"}

\* a directory lists every name once
DirListings ==
    {l \in UNION {[1..k -> ListingPool] : k \in 0..MaxListing} :
        \A x, y \in DOMAIN l : x # y => l[x] # l[y]}

all_digits(s) == \A k \in 1..Len(s) : IsDigit(Char(s, k))

\* re.match(fr'{prefix}_\d{{8}}_\d{{4}}\.csv$', f)
matches_stamped(pre, f) ==
    /\ Len(f) = Len(pre) + 18
    /\ SubSeq(f, 1, Len(pre)) = pre
    /\ Char(f, Len(pre) + 1) = "_"
    /\ all_digits(SubSeq(f, Len(pre) + 2, Len(pre) + 9))
    /\ Char(f, Len(pre) + 10) = "_"
    /\ all_digits(SubSeq(f, Len(pre) + 11, Len(pre) + 14))
    /\ SubSeq(f, Len(pre) + 15, Len(pre) + 18) = ".csv"

RECURSIVE after_last(_, _)
\* s.split(c)[-1]
after_last(s, c) ==
    IF s = "" \/ Char(s, Len(s)) = c THEN ""
    ELSE after_last(SubSeq(s, 1, Len(s) - 1), c) \o Char(s, Len(s))

RECURSIVE before_first(_, _)
\* s.split(c)[0]
before_first(s, c) ==
    IF s = "" \/ Head(s) = c THEN "" ELSE Head(s) \o before_first(Tail(s), c)

\* the key of max: x.split("_")[-1].split(".")[0]
latest_key(x) == before_first(after_last(x, "_"), ".")

RECURSIVE str_less(_, _)
\* a < b of two strings of digits
str_less(a, b) ==
    IF b = "" THEN FALSE
    ELSE IF a = "" THEN TRUE
    ELSE IF Head(a) # Head(b) THEN DigitValue(Head(a)) < DigitValue(Head(b))
    ELSE str_less(Tail(a), Tail(b))

RECURSIVE max_key(_, _)
\* max(files, key = latest_key) continued from the best so far: the first of
\* the files with the greatest key
max_key(best, files) ==
    IF files = <<>> THEN best
    ELSE IF str_less(latest_key(best), latest_key(Head(files)))
         THEN max_key(Head(files), Tail(files))
         ELSE max_key(best, Tail(files))

\* the list csv_files
csv_files(pre, l) == SelectSeq(l, LAMBDA f : matches_stamped(pre, f))

InitLatest ==
    /\ dir_listing \in DirListings
    /\ file_prefix \in {"pdf_comparison", "image_matches"}
    /\ latest_file = ""
    /\ lpc = "in"
    /\ NormIdle
    /\ AddrIdle
    /\ ResIdle
    /\ DispIdle
    /\ ExtractIdle
    /\ AppIdle
    /\ TplIdle
    /\ ImgIdle
    /\ ReportIdle

notLatestVars == <<variant, awards, graph, edge_reasons, seen, stack, comp,
                   comp_reasons_for_graph, outer_i, components, returned, rpc,
                   run, first_run, name, norm1, norm2, npc, addr1, addr2,
                   sim_vis, sim_plain, apc, tplVars, imgVars, reportVars,
                   dispVars, extractVars, appVars>>

\* "latest_file = max(csv_files, key=...)" and the return
FindLatest ==
    /\ lpc = "in"
    /\ csv_files(file_prefix, dir_listing) # <<>>
    /\ latest_file' = max_key(Head(csv_files(file_prefix, dir_listing)),
                              Tail(csv_files(file_prefix, dir_listing)))
    /\ lpc' = "found"
    /\ UNCHANGED <<notLatestVars, dir_listing, file_prefix>>

\* "if not csv_files: raise FileNotFoundError"
RaiseFileNotFound ==
    /\ lpc = "in"
    /\ csv_files(file_prefix, dir_listing) = <<>>
    /\ lpc' = "raised"
    /\ UNCHANGED <<notLatestVars, dir_listing, file_prefix, latest_file>>

NextLatest == FindLatest \/ RaiseFileNotFound

SpecLatest == InitLatest /\ [][NextLatest]_vars

-----------------------------------------------------------------------------
(* Properties of find_latest_pdf_comparison / find_latest_file *)

\* the date and the time of day of a name <prefix>_YYYYMMDD_HHMM.csv
DateOf(f) == int(SubSeq(f, Len(f) - 16, Len(f) - 9))
TimeOf(f) == int(SubSeq(f, Len(f) - 7, Len(f) - 4))

\* f is at least as recent as g: the date first, the time of day second
NotOlder(f, g) ==
    DateOf(f) > DateOf(g) \/ (DateOf(f) = DateOf(g) /\ TimeOf(f) >= TimeOf(g))

\* C23: the file found is the most recent of the files named
\* <prefix>_YYYYMMDD_HHMM.csv in the directory, by the date first and the time
\* of day second
C23_LatestByDateThenTime ==
    lpc = "found" =>
        \A k \in 1..Len(dir_listing) :
            matches_stamped(file_prefix, dir_listing[k]) =>
                NotOlder(latest_file, dir_listing[k])

-----------------------------------------------------------------------------
(* extract_images_from_pdf over one run of main (0-process.py, 0B-process.py) *)

\* number of PDFs of the directory
MaxPdfs == 2

\* number of images of one PDF
MaxPdfImages == 3

\* "if image.width < 20 or image.height < 20"
MIN_IMAGE_SIDE == 20

\* "if image_counts[img_hash] > 3"
MAX_OCCURRENCES == 3

\* the images a PDF embeds: their size and their perceptual hash
EmbeddedImages ==
    {[width |-> 64, height |-> 64, phash |-> "aa"],
     [width |-> 64, height |-> 64, phash |-> "bb"],
     [width |-> 64, height |-> 10, phash |-> "aa"]}

\* "if image.width < 20 or image.height < 20"
tiny(image) == image.width < MIN_IMAGE_SIDE \/ image.height < MIN_IMAGE_SIDE

\* image_counts[h] of the defaultdict, without inserting the key
count_of(counts, h) == IF h \in DOMAIN counts THEN counts[h] ELSE 0

\* "image_counts[img_hash] += 1"
counted(counts, h) ==
    [k \in DOMAIN counts \cup {h} |->
        IF k = h THEN count_of(counts, h) + 1 ELSE counts[k]]

\* a slip: the fourth occurrence is kept too
repeated_after_four(n) == n > MAX_OCCURRENCES + 1

\* "if image_counts[img_hash] > 3"
repeated(n) == n > MAX_OCCURRENCES

\* the module is loaded: image_counts is empty; main lists the directory
InitExtract ==
    /\ image_counts = <<>>
    /\ image_data = <<>>
    /\ outputs = <<>>
    /\ img_index = 0
    /\ pdf_count \in 0..MaxPdfs
    /\ epc = "main"
    /\ NormIdle
    /\ AddrIdle
    /\ ResIdle
    /\ DispIdle
    /\ LatestIdle
    /\ AppIdle
    /\ TplIdle
    /\ ImgIdle
    /\ ReportIdle

notExtractVars == <<variant, awards, graph, edge_reasons, seen, stack, comp,
                    comp_reasons_for_graph, outer_i, components, returned, rpc,
                    run, first_run, name, norm1, norm2, npc, addr1, addr2,
                    sim_vis, sim_plain, apc, tplVars, imgVars, reportVars,
                    dispVars, latestVars, appVars>>

\* process_pdf calls extract_images_from_pdf: "image_data = []"
OpenPdf ==
    /\ epc = "main"
    /\ Len(outputs) < pdf_count
    /\ image_data' = <<>>
    /\ img_index' = 0
    /\ epc' = "images"
    /\ UNCHANGED <<notExtractVars, image_counts, outputs, pdf_count>>

\* the next image is small: "continue" before the hash is computed
SkipTinyImage ==
    /\ epc = "images"
    /\ img_index < MaxPdfImages
    /\ \E image \in EmbeddedImages : tiny(image)
    /\ img_index' = img_index + 1
    /\ UNCHANGED <<notExtractVars, image_counts, image_data, outputs, pdf_count, epc>>

\* the next image is counted and recorded
RecordImage ==
    /\ epc = "images"
    /\ img_index < MaxPdfImages
    /\ \E image \in EmbeddedImages :
          /\ ~tiny(image)
          /\ image_counts' = counted(image_counts, image.phash)
          /\ ~repeated(image_counts'[image.phash])
          /\ image_data' = Append(image_data,
                                  [pdf |-> Len(outputs) + 1, img |-> img_index + 1,
                                   hash |-> image.phash])
    /\ img_index' = img_index + 1
    /\ UNCHANGED <<notExtractVars, outputs, pdf_count, epc>>

\* the next image is counted and skipped as repeated
SkipRepeatedImage ==
    /\ epc = "images"
    /\ img_index < MaxPdfImages
    /\ \E image \in EmbeddedImages :
          /\ ~tiny(image)
          /\ image_counts' = counted(image_counts, image.phash)
          /\ repeated(image_counts'[image.phash])
    /\ img_index' = img_index + 1
    /\ UNCHANGED <<notExtractVars, image_data, outputs, pdf_count, epc>>

\* the PDF has no further image: process_pdf writes the JSON document
SavePdf ==
    /\ epc = "images"
    /\ outputs' = Append(outputs, image_data)
    /\ epc' = "main"
    /\ UNCHANGED <<notExtractVars, image_counts, image_data, img_index, pdf_count>>

\* the loop of main is over
EndRun ==
    /\ epc = "main"
    /\ Len(outputs) = pdf_count
    /\ epc' = "done"
    /\ UNCHANGED <<notExtractVars, image_counts, image_data, outputs, img_index,
                   pdf_count>>

NextExtract ==
    \/ OpenPdf \/ SkipTinyImage \/ RecordImage \/ SkipRepeatedImage
    \/ SavePdf \/ EndRun

\* one run of main over the PDFs of the directory
SpecExtract == InitExtract /\ [][NextExtract]_vars

-----------------------------------------------------------------------------
(* Properties of the image counter *)

\* the perceptual hashes of the embedded images
EmbeddedHashes == {image.phash : image \in EmbeddedImages}

\* the records with hash h of one list
RecordsIn(list, h) == Cardinality({k \in 1..Len(list) : list[k].hash = h})

RECURSIVE RecordsOver(_, _)
RecordsOver(docs, h) ==
    IF docs = <<>> THEN 0 ELSE RecordsIn(Head(docs), h) + RecordsOver(Tail(docs), h)

\* the records with hash h of every document written, and of the one being
\* built
RecordsOf(h) ==
    RecordsOver(outputs, h) + (IF epc = "images" THEN RecordsIn(image_data, h) ELSE 0)

\* C25: the counter is shared over the run: at any point every hash has at
\* most 3 records over all the documents, namely its first 3 occurrences
\* whichever documents they are in, and no step lowers the counter of a hash
C25_SharedCounterCapsAtThree ==
    /\ [](\A h \in EmbeddedHashes :
            /\ RecordsOf(h) <= 3
            /\ RecordsOf(h) = Min({count_of(image_counts, h), 3}))
    /\ [][\A h \in EmbeddedHashes :
            count_of(image_counts', h) >= count_of(image_counts, h)]_vars

\* a hash occurs in two documents, and its 4th occurrence, in the second
\* document, was dropped
C25_Witness ==
    /\ epc = "done"
    /\ Len(outputs) = 2
    /\ count_of(image_counts, "aa") >= 4
    /\ RecordsIn(outputs[1], "aa") = 2
    /\ RecordsIn(outputs[2], "aa") = 1

-----------------------------------------------------------------------------
(* main of sl-api-vis.py under Streamlit: every interaction runs the script
   again; the callback of the button runs before the script *)

\* the values the user enters
Years == {DEFAULT_YEAR, DEFAULT_YEAR + 1}
Agencies == {"DOD", "NIH"}
Branches == {"USAF", "navy", " "}

\* the branches of the awards fetch_awards returns; {} for no award
FetchedBranches == SUBSET {"USAF", "Navy"}

\* str.upper() on one character
UpperChar(c) ==
    IF \E u \in DOMAIN LOWER_OF : LOWER_OF[u] = c
    THEN CHOOSE u \in DOMAIN LOWER_OF : LOWER_OF[u] = c
    ELSE c

RECURSIVE upper(_)
\* str.upper()
upper(s) == IF s = "" THEN "" ELSE UpperChar(Head(s)) \o upper(Tail(s))

\* a slip: the branch is left out of the comparison
mismatch_ignoring_branch(year, agency, branch, f_year, f_agency, f_branch) ==
    year # f_year \/ agency # f_agency

\* "if (year != st.session_state.filter_year or agency != ... or branch != ...)"
mismatch(year, agency, branch, f_year, f_agency, f_branch) ==
    year # f_year \/ agency # f_agency \/ branch # f_branch

\* the branch filter of the fetched awards: the list filtered_awards is empty
no_filtered_awards(fetched, f_branch) ==
    IF strip(f_branch) # ""
    THEN {b \in fetched : upper(b) = upper(f_branch)} = {}
    ELSE fetched = {}

\* one run of the script from the widgets to its end, on the session state
\* (ra, f_year, f_agency, f_branch) and the widget values: what it shows and
\* the run_analysis it leaves
script_run(ra, year, agency, branch, f_year, f_agency, f_branch, fetched) ==
    LET ra1 == IF mismatch(year, agency, branch, f_year, f_agency, f_branch)
               THEN FALSE ELSE ra
    IN  IF ~ra1 THEN [shows |-> "info", run_analysis |-> ra1]
        ELSE IF fetched = {} THEN [shows |-> "fetch_warning", run_analysis |-> FALSE]
        ELSE IF no_filtered_awards(fetched, f_branch)
             THEN [shows |-> "branch_warning", run_analysis |-> FALSE]
        ELSE [shows |-> "results", run_analysis |-> ra1]

\* the session state after lines 19-26, before the first run of main
InitApp ==
    /\ run_analysis = FALSE
    /\ filter_year = DEFAULT_YEAR /\ filter_agency = "DOD" /\ filter_branch = "USAF"
    /\ input_year = DEFAULT_YEAR /\ input_agency = "DOD" /\ input_branch = "USAF"
    /\ callback = NoCallback
    /\ page_shown = "none"
    /\ last_click = NoClick
    /\ edited_since_click = FALSE
    /\ NormIdle
    /\ AddrIdle
    /\ ResIdle
    /\ DispIdle
    /\ LatestIdle
    /\ ExtractIdle
    /\ TplIdle
    /\ ImgIdle
    /\ ReportIdle

notAppVars == <<variant, awards, graph, edge_reasons, seen, stack, comp,
                comp_reasons_for_graph, outer_i, components, returned, rpc,
                run, first_run, name, norm1, norm2, npc, addr1, addr2,
                sim_vis, sim_plain, apc, tplVars, imgVars, reportVars,
                dispVars, latestVars, extractVars>>

\* main runs with the widgets at (year, agency, branch) on the session state
\* (ra, f_year, f_agency, f_branch): the widgets keep their values, the button
\* is registered with a callback that closes over them, and the page is built
RunScript(ra, year, agency, branch, f_year, f_agency, f_branch) ==
    /\ input_year' = year /\ input_agency' = agency /\ input_branch' = branch
    /\ filter_year' = f_year /\ filter_agency' = f_agency /\ filter_branch' = f_branch
    /\ callback' = [year |-> year, agency |-> agency, branch |-> branch]
    /\ \E fetched \in FetchedBranches :
          \E r \in {script_run(ra, year, agency, branch, f_year, f_agency,
                               f_branch, fetched)} :
             /\ page_shown' = r.shows
             /\ run_analysis' = r.run_analysis
    /\ UNCHANGED notAppVars

\* the page is opened, or run again with nothing changed
Rerun ==
    /\ page_shown # "idle"
    /\ RunScript(run_analysis, input_year, input_agency, input_branch,
                 filter_year, filter_agency, filter_branch)
    /\ UNCHANGED <<last_click, edited_since_click>>

\* the user changes a widget
EditYear ==
    /\ page_shown \notin {"idle", "none"}
    /\ \E year \in Years \ {input_year} :
          RunScript(run_analysis, year, input_agency, input_branch,
                    filter_year, filter_agency, filter_branch)
    /\ edited_since_click' = TRUE
    /\ UNCHANGED last_click

EditAgency ==
    /\ page_shown \notin {"idle", "none"}
    /\ \E agency \in Agencies \ {input_agency} :
          RunScript(run_analysis, input_year, agency, input_branch,
                    filter_year, filter_agency, filter_branch)
    /\ edited_since_click' = TRUE
    /\ UNCHANGED last_click

EditBranch ==
    /\ page_shown \notin {"idle", "none"}
    /\ \E branch \in Branches \ {input_branch} :
          RunScript(run_analysis, input_year, input_agency, branch,
                    filter_year, filter_agency, filter_branch)
    /\ edited_since_click' = TRUE
    /\ UNCHANGED last_click

\* Run Analysis is clicked: set_run_analysis_true stores the values it closes
\* over, then the script runs
ClickRunAnalysis ==
    /\ callback # NoCallback
    /\ RunScript(TRUE, input_year, input_agency, input_branch,
                 callback.year, callback.agency, callback.branch)
    /\ last_click' = callback
    /\ edited_since_click' = FALSE

\* Run Analysis is clicked while the branch field holds an edit that is sent
\* with the click: the callback still closes over the values of the last run
ClickWhileEditing ==
    /\ callback # NoCallback
    /\ \E branch \in Branches \ {input_branch} :
          RunScript(TRUE, input_year, input_agency, branch,
                    callback.year, callback.agency, callback.branch)
    /\ last_click' = callback
    /\ edited_since_click' = TRUE

NextApp ==
    \/ Rerun \/ EditYear \/ EditAgency \/ EditBranch
    \/ ClickRunAnalysis \/ ClickWhileEditing

\* one session of the app
SpecApp == InitApp /\ [][NextApp]_vars

-----------------------------------------------------------------------------
(* Properties of the session *)

\* the last run fetched awards
Fetched == page_shown \in {"results", "fetch_warning", "branch_warning"}

InputValues == [year |-> input_year, agency |-> input_agency, branch |-> input_branch]

FilterValues == [year |-> filter_year, agency |-> filter_agency, branch |-> filter_branch]

\* C24: a run fetches, and shows results, only after a click of Run Analysis
\* whose stored values are the current year, agency and branch, with no edit
\* since, and results leave run_analysis set; a run that finds no award, or
\* none of the branch, leaves run_analysis False
C24_ResultsOnlyForClickedFilters ==
    /\ Fetched =>
          /\ last_click # NoClick
          /\ FilterValues = last_click
          /\ InputValues = last_click
          /\ ~edited_since_click
    /\ page_shown = "results" => run_analysis
    /\ page_shown \in {"fetch_warning", "branch_warning"} => ~run_analysis

\* after a click the branch was edited away and back: the inputs equal the
\* stored values again and the page asks for a new click
C24_Witness ==
    /\ last_click # NoClick
    /\ edited_since_click
    /\ InputValues = last_click
    /\ FilterValues = last_click
    /\ page_shown = "info"

=============================================================================
